---------------------------- MODULE Spec2Model ----------------------------
(***************************************************************************)
(* RXMeshDynamic::validate() and the validator kernels of                  *)
(* src/include/rxmesh/matrix/dense_matrix.cuh, over a two-patch mesh.      *)
(*                                                                         *)
(* The mesh is the device-resident Context: global element counts and one  *)
(* PatchInfo per patch (counts, ev, fe, active/owned masks, LP tables and  *)
(* patch stash).  Arrays are functions over 0..n-1 as in the source.       *)
(***************************************************************************)
EXTENDS Integers, Sequences, FiniteSets, TLC

VARIABLES
    mesh,          \* device Context: [num, patches]
    edits,         \* number of out-of-validator mutations applied so far
    restored,      \* TRUE iff the last mesh change put back the valid partition
    pc,            \* position of validate(): "idle" or the next step to run
    m_quite,       \* RXMeshDynamic::m_quite
    cached_quite,  \* local cached_quite of validate()
    d_check,       \* device error counter (Uninit after cudaMalloc)
    success,       \* local success of validate()
    passed,        \* what each check lambda returned in this run (None if not run)
    count,         \* d_check as read by is_okay() after each kernel (-1 if not run)
    flagged,       \* the atomicAdds on d_check executed in this run (Site records)
    launched,      \* kernels launched in this run
    vf_global,     \* the "vf" vertex attribute filled by compute_vf (None outside)
    attributes,    \* names of the attributes registered with the mesh object
    ret,           \* value returned by the last validate() (None before)
                   \* passed and ret hold "true" / "false" for the C++ bool
    d_num_patches, \* *m_rxmesh_context.m_num_patches, the device's patch count
    host,          \* host side of the mesh object: mirrors, counts, prefix sums
    dsum,          \* device summary arrays m_d_num_* and m_d_num_owned_*
    errors,        \* the RXMESH_ERROR reports of the last update_host()
    calls_since,   \* update_host() calls since the last device mutation (0, 1, 2 = more)
    ndebug,        \* TRUE iff the build defines NDEBUG (assert compiled out)
    m_size,        \* Bitmask::m_size, the number of bits
    m_bitmask,     \* Bitmask::m_bitmask, the words; a word is the set of its set bits
    phase,         \* who uses the mask: "host", a "group" call or concurrent "tasks"
    thr,           \* per device thread: the call it is in and its position
    trap,          \* "none", "assert" (assertion failed) or "oob" (access outside the
                   \* words of the mask, or a copy past the end of a host buffer)
    outcomes,      \* what finished batches of concurrent calls did to their updates
    last,          \* the last single-bit call of the host: [kind, bit, result]
    kern,          \* the validator kernel a block is running: [name, patch]
    k_pc,          \* per thread of the block: index of its next stage
    s_written,     \* shared cells written since the last barrier, with the writer
    races          \* reads of a cell another thread wrote with no barrier between

validatevars == <<pc, m_quite, cached_quite, d_check, success, passed, count,
                  flagged, launched, vf_global, attributes, ret>>

hostvars == <<host, dsum, errors, calls_since>>

bitvars == <<ndebug, m_size, m_bitmask, phase, thr, trap, outcomes, last>>

kernvars == <<kern, k_pc, s_written, races>>

vars == <<mesh, edits, restored, pc, m_quite, cached_quite, d_check, success,
          passed, count, flagged, launched, vf_global, attributes, ret,
          d_num_patches, host, dsum, errors, calls_since,
          ndebug, m_size, m_bitmask, phase, thr, trap, outcomes, last,
          kern, k_pc, s_written, races>>

-----------------------------------------------------------------------------
(* Bounds *)

MaxEdits == 1

\* device threads that use one Bitmask together
MaxThreads == 2

\* words of the largest Bitmask
MaxWords == 2

\* elements of one patch deleted, and edges of it given up, before a run
MaxChanged == 2

-----------------------------------------------------------------------------
(* Values *)

None == "none"
Uninit == "uninit"

Types == {"v", "e", "f"}

Checks == {"num_mesh_elements", "uniqueness", "not_owned", "ribbon"}

Counters == {"uniqueness", "not_owned", "ribbon_edges", "ribbon_faces"}

Arr(s) == [i \in 0 .. Len(s) - 1 |-> s[i + 1]]

Idx(n) == 0 .. n - 1

\* the absent entry of an LP table
NoPair == [lid |-> -1, stash |-> -1]

LPPair(lid, stash) == [lid |-> lid, stash |-> stash]

Handle(patch, lid) == [patch |-> patch, lid |-> lid]

-----------------------------------------------------------------------------
(* The valid two-patch partition of two triangles A = (a,b,c), B = (b,d,c). *)
(* Patch 0 owns A, its three edges and a, b, c; patch 1 owns B, the edges   *)
(* (b,d), (d,c) and d.  Each patch holds the other's face as a ribbon copy. *)

AllSet(n) == [i \in Idx(n) |-> TRUE]

Patch0 ==
    [num          |-> [v |-> 4, e |-> 5, f |-> 2],
     ev           |-> Arr(<<0, 1, 1, 2, 2, 0, 1, 3, 3, 2>>),
     fe           |-> Arr(<<0, 2, 4, 6, 8, 3>>),
     active_mask  |-> [v |-> AllSet(4), e |-> AllSet(5), f |-> AllSet(2)],
     owned_mask   |-> [v |-> Arr(<<TRUE, TRUE, TRUE, FALSE>>),
                       e |-> Arr(<<TRUE, TRUE, TRUE, FALSE, FALSE>>),
                       f |-> Arr(<<TRUE, FALSE>>)],
     lp           |-> [v |-> Arr(<<NoPair, NoPair, NoPair, LPPair(0, 0)>>),
                       e |-> Arr(<<NoPair, NoPair, NoPair, LPPair(0, 0), LPPair(1, 0)>>),
                       f |-> Arr(<<NoPair, LPPair(0, 0)>>)],
     lp_capacity  |-> [v |-> 4, e |-> 5, f |-> 2],
     patch_stash  |-> Arr(<<1>>)]

Patch1 ==
    [num          |-> [v |-> 4, e |-> 5, f |-> 2],
     ev           |-> Arr(<<1, 0, 0, 2, 1, 2, 3, 1, 2, 3>>),
     fe           |-> Arr(<<0, 2, 5, 6, 4, 8>>),
     active_mask  |-> [v |-> AllSet(4), e |-> AllSet(5), f |-> AllSet(2)],
     owned_mask   |-> [v |-> Arr(<<TRUE, FALSE, FALSE, FALSE>>),
                       e |-> Arr(<<TRUE, TRUE, FALSE, FALSE, FALSE>>),
                       f |-> Arr(<<TRUE, FALSE>>)],
     lp           |-> [v |-> Arr(<<NoPair, LPPair(1, 0), LPPair(2, 0), LPPair(0, 0)>>),
                       e |-> Arr(<<NoPair, NoPair, LPPair(1, 0), LPPair(0, 0), LPPair(2, 0)>>),
                       f |-> Arr(<<NoPair, LPPair(0, 0)>>)],
     lp_capacity  |-> [v |-> 4, e |-> 5, f |-> 2],
     patch_stash  |-> Arr(<<0>>)]

ValidMesh ==
    [num     |-> [v |-> 4, e |-> 5, f |-> 2],
     patches |-> Arr(<<Patch0, Patch1>>)]

Patches(m) == DOMAIN m.patches

-----------------------------------------------------------------------------
(* Reads that leave an array are undefined behaviour: the value read is    *)
(* ub.bit (a mask bit) or ub.val (an array cell), chosen by the kernel run. *)

UBChoices == [bit : BOOLEAN, val : 0 .. 4]

\* a mesh in which no kernel reads outside an array: indices in range, an LP
\* entry for every not-owned element, no owned face without vertices
AllReadsInRange(m) ==
    \A p \in DOMAIN m.patches :
        LET pi == m.patches[p]
        IN  /\ \A i \in DOMAIN pi.ev : pi.ev[i] < pi.num.v
            /\ \A i \in DOMAIN pi.fe : pi.fe[i] \div 2 < pi.num.e
            /\ \A t \in {"v", "e", "f"} : \A i \in DOMAIN pi.lp[t] :
                  pi.owned_mask[t][i] \/ pi.lp[t][i].lid >= 0
            /\ \A f \in DOMAIN pi.active_mask.f :
                  pi.owned_mask.f[f] => pi.active_mask.f[f]

UB(m) == IF AllReadsInRange(m) THEN {[bit |-> FALSE, val |-> 0]} ELSE UBChoices

is_set_bit(i, mask, ub) == IF i \in DOMAIN mask THEN mask[i] ELSE ub.bit

is_owned(i, mask, ub) == is_set_bit(i, mask, ub)

is_deleted(i, mask, ub) == ~is_set_bit(i, mask, ub)

\* Context::unpack_edge_dir: the low bit is the direction, the rest the edge
unpack_edge(x) == x \div 2

unpack_dir(x) == x % 2

\* s_ev[i] after load_async of 2*num_edges entries
s_ev(pi, i, ub) == IF i \in DOMAIN pi.ev THEN pi.ev[i] ELSE ub.val


\* one execution of ::atomicAdd(d_check, 1): the kernel, the element whose
\* thread ran it and the test that led to it
Site(kernel, t, h, why) ==
    [kernel |-> kernel, type |-> t, patch |-> h.patch, lid |-> h.lid, why |-> why]

When(cond, why) == IF cond THEN {why} ELSE {}

\* all (patch, local index) pairs of one element type
Elements(m, t) ==
    UNION {{Handle(p, i) : i \in Idx(m.patches[p].num[t])} : p \in Patches(m)}

PatchOf(m, h) == m.patches[h.patch]

-----------------------------------------------------------------------------
(* Element-count check *)

\* for_each_dispatcher<Op::V/E/F>: the handles the lambda is applied to
for_each_dispatcher(m, t) ==
    {h \in Elements(m, t) : PatchOf(m, h).owned_mask[t][h.lid]}

\* the three sums after calc_num_elements (one atomicAdd per visited handle)
calc_num_elements(m) ==
    [t \in Types |-> Cardinality(for_each_dispatcher(m, t))]

check_num_mesh_elements_FacesIgnored(m) ==
    LET sum == calc_num_elements(m)
    IN  ~(m.num.v # sum.v \/ m.num.e # sum.e)

\* the lambda check_num_mesh_elements of validate()
check_num_mesh_elements(m) ==
    LET sum == calc_num_elements(m)
    IN  ~(m.num.v # sum.v \/ m.num.e # sum.e \/ m.num.f # sum.f)

-----------------------------------------------------------------------------
(* Uniqueness check *)

uniq_edge_NoDistinctTest(pi, e, ub) ==
    LET v0 == s_ev(pi, 2 * e + 0, ub)
        v1 == s_ev(pi, 2 * e + 1, ub)
    IN  IF ~is_deleted(e, pi.active_mask.e, ub)
        THEN When(v0 >= pi.num.v \/ v1 >= pi.num.v, "edge_vertices")
             \cup When(is_deleted(v0, pi.active_mask.v, ub)
                       \/ is_deleted(v1, pi.active_mask.v, ub), "edge_vertex_deleted")
        ELSE {}

\* the atomicAdds of the thread of edge e (first loop of check_uniqueness)
uniq_edge(pi, e, ub) ==
    LET v0 == s_ev(pi, 2 * e + 0, ub)
        v1 == s_ev(pi, 2 * e + 1, ub)
    IN  IF ~is_deleted(e, pi.active_mask.e, ub)
        THEN When(v0 >= pi.num.v \/ v1 >= pi.num.v \/ v0 = v1, "edge_vertices")
             \cup When(is_deleted(v0, pi.active_mask.v, ub)
                       \/ is_deleted(v1, pi.active_mask.v, ub), "edge_vertex_deleted")
        ELSE {}

\* the atomicAdds of the thread of face f (second loop of check_uniqueness)
uniq_face(pi, f, ub) ==
    LET e0 == unpack_edge(pi.fe[3 * f + 0])
        e1 == unpack_edge(pi.fe[3 * f + 1])
        e2 == unpack_edge(pi.fe[3 * f + 2])
        d0 == unpack_dir(pi.fe[3 * f + 0])
        d1 == unpack_dir(pi.fe[3 * f + 1])
        d2 == unpack_dir(pi.fe[3 * f + 2])
        v0 == s_ev(pi, (2 * e0) + (1 * d0), ub)
        v1 == s_ev(pi, (2 * e1) + (1 * d1), ub)
        v2 == s_ev(pi, (2 * e2) + (1 * d2), ub)
    IN  IF ~is_deleted(f, pi.active_mask.f, ub)
        THEN When(e0 >= pi.num.e \/ e1 >= pi.num.e \/ e2 >= pi.num.e
                  \/ e0 = e1 \/ e0 = e2 \/ e1 = e2, "face_edges")
             \cup When(is_deleted(e0, pi.active_mask.e, ub)
                       \/ is_deleted(e1, pi.active_mask.e, ub)
                       \/ is_deleted(e2, pi.active_mask.e, ub), "face_edge_deleted")
             \cup When(v0 >= pi.num.v \/ v1 >= pi.num.v \/ v2 >= pi.num.v
                       \/ v0 = v1 \/ v0 = v2 \/ v1 = v2, "face_vertices")
             \cup When(is_deleted(v0, pi.active_mask.v, ub)
                       \/ is_deleted(v1, pi.active_mask.v, ub)
                       \/ is_deleted(v2, pi.active_mask.v, ub), "face_vertex_deleted")
        ELSE {}

\* one read of check_uniqueness: a test of an active-mask bit of a type, or a
\* read of the loaded s_ev, at an index, with the number of entries there are
Read(arr, t, index, limit) ==
    [arr |-> arr, type |-> t, index |-> index, limit |-> limit]

\* is_deleted(a, mask) || is_deleted(b, mask) || ...: the tests made, up to
\* the first that is true
RECURSIVE tests_until_deleted(_, _, _, _)
tests_until_deleted(pi, t, idx, ub) ==
    IF idx = <<>> THEN {}
    ELSE {Read("active_mask", t, Head(idx), pi.num[t])}
         \cup IF is_deleted(Head(idx), pi.active_mask[t], ub) THEN {}
              ELSE tests_until_deleted(pi, t, Tail(idx), ub)

\* the reads of the thread of edge e (lines 148-158)
uniq_edge_reads(pi, e, ub) ==
    LET v0 == s_ev(pi, 2 * e + 0, ub)
        v1 == s_ev(pi, 2 * e + 1, ub)
    IN  {Read("s_ev", "e", 2 * e + 0, 2 * pi.num.e),
         Read("s_ev", "e", 2 * e + 1, 2 * pi.num.e),
         Read("active_mask", "e", e, pi.num.e)}
        \cup IF ~is_deleted(e, pi.active_mask.e, ub)
             THEN tests_until_deleted(pi, "v", <<v0, v1>>, ub)
             ELSE {}

\* the reads of the thread of face f (lines 169-203)
uniq_face_reads(pi, f, ub) ==
    LET e0 == unpack_edge(pi.fe[3 * f + 0])
        e1 == unpack_edge(pi.fe[3 * f + 1])
        e2 == unpack_edge(pi.fe[3 * f + 2])
        d0 == unpack_dir(pi.fe[3 * f + 0])
        d1 == unpack_dir(pi.fe[3 * f + 1])
        d2 == unpack_dir(pi.fe[3 * f + 2])
        v0 == s_ev(pi, (2 * e0) + (1 * d0), ub)
        v1 == s_ev(pi, (2 * e1) + (1 * d1), ub)
        v2 == s_ev(pi, (2 * e2) + (1 * d2), ub)
    IN  {Read("active_mask", "f", f, pi.num.f)}
        \cup IF ~is_deleted(f, pi.active_mask.f, ub)
             THEN tests_until_deleted(pi, "e", <<e0, e1, e2>>, ub)
                  \cup {Read("s_ev", "e", (2 * e0) + (1 * d0), 2 * pi.num.e),
                        Read("s_ev", "e", (2 * e1) + (1 * d1), 2 * pi.num.e),
                        Read("s_ev", "e", (2 * e2) + (1 * d2), 2 * pi.num.e)}
                  \cup tests_until_deleted(pi, "v", <<v0, v1, v2>>, ub)
             ELSE {}

\* every read of the kernel check_uniqueness, over all blocks
check_uniqueness_reads(m, ub) ==
    UNION {uniq_edge_reads(PatchOf(m, h), h.lid, ub) : h \in Elements(m, "e")}
    \cup UNION {uniq_face_reads(PatchOf(m, h), h.lid, ub) : h \in Elements(m, "f")}

\* kernel check_uniqueness: every atomicAdd on d_check, over all blocks
check_uniqueness(m, ub) ==
    UNION {{Site("check_uniqueness", "e", h, w) :
                w \in uniq_edge(PatchOf(m, h), h.lid, ub)} : h \in Elements(m, "e")}
    \cup
    UNION {{Site("check_uniqueness", "f", h, w) :
                w \in uniq_face(PatchOf(m, h), h.lid, ub)} : h \in Elements(m, "f")}

-----------------------------------------------------------------------------
(* Not-owned mirroring check *)

\* LPHashTable::find: the stored pair, or the invalid pair when there is none
find(lp, i) == IF i \in DOMAIN lp THEN lp[i] ELSE NoPair

\* LPPair::local_id_in_owner_patch (of the invalid pair: an arbitrary index)
local_id_in_owner_patch(pair, ub) ==
    IF pair = NoPair THEN ub.val ELSE pair.lid

\* PatchStash::get_patch (of a slot outside the stash: an arbitrary patch)
get_patch(m, stash, pair, ub) ==
    IF pair.stash \in DOMAIN stash
    THEN stash[pair.stash]
    ELSE ub.val % Cardinality(Patches(m))

\* the lambdas get_owned_e / get_owned_v: the (patch, index) the element
\* resolves to, itself when the patch owns it
get_owned(m, t, x, p, pi, ub) ==
    IF ~is_owned(x, pi.owned_mask[t], ub)
    THEN LET pair == find(pi.lp[t], x)
         IN  Handle(get_patch(m, pi.patch_stash, pair, ub),
                    local_id_in_owner_patch(pair, ub))
    ELSE Handle(p, x)

\* owner_patch_info.fe[i].id and owner_patch_info.ev[i].id, read from global memory
fe_at(pi, i, ub) == IF i \in DOMAIN pi.fe THEN pi.fe[i] ELSE ub.val

ev_at(pi, i, ub) == IF i \in DOMAIN pi.ev THEN pi.ev[i] ELSE ub.val

owner_lacks_owned_bit_Never(lid, mask, ub) == FALSE

\* "the owner patch should have indicate that the owned face is owned by it"
owner_lacks_owned_bit(lid, mask, ub) == ~is_owned(lid, mask, ub)

owner_is_del_Never(lid, mask, ub) == FALSE

\* is_del: the element is deleted in its owner patch
owner_is_del(lid, mask, ub) == is_deleted(lid, mask, ub)

face_edges_differ_NoDir(h, d, hw, dw) ==
    \E k \in 0 .. 2 :
        h[k].lid # hw[k].lid \/ h[k].patch # hw[k].patch

\* the comparison of the ribbon copy's three edges with the owner's
face_edges_differ(h, d, hw, dw) ==
    \E k \in 0 .. 2 :
        h[k].lid # hw[k].lid \/ d[k] # dw[k] \/ h[k].patch # hw[k].patch

\* the comparison of the ribbon copy's two vertices with the owner's
edge_vertices_differ(h, hw) ==
    \E k \in 0 .. 1 :
        h[k].lid # hw[k].lid \/ h[k].patch # hw[k].patch

\* the atomicAdds of the thread of face f of patch p
not_owned_face(m, p, f, ub) ==
    LET pi == m.patches[p]
    IN  IF ~is_deleted(f, pi.active_mask.f, ub) /\ ~is_owned(f, pi.owned_mask.f, ub)
        THEN LET h == [k \in 0 .. 2 |->
                         get_owned(m, "e", unpack_edge(pi.fe[3 * f + k]), p, pi, ub)]
                 d == [k \in 0 .. 2 |-> unpack_dir(pi.fe[3 * f + k])]
                 f_pair  == find(pi.lp.f, f)
                 f_owned == local_id_in_owner_patch(f_pair, ub)
                 f_patch == get_patch(m, pi.patch_stash, f_pair, ub)
                 owner_patch_info == m.patches[f_patch]
                 hw == [k \in 0 .. 2 |->
                          get_owned(m, "e",
                                    unpack_edge(fe_at(owner_patch_info, 3 * f_owned + k, ub)),
                                    f_patch, owner_patch_info, ub)]
                 dw == [k \in 0 .. 2 |->
                          unpack_dir(fe_at(owner_patch_info, 3 * f_owned + k, ub))]
             IN  When(owner_lacks_owned_bit(f_owned, owner_patch_info.owned_mask.f, ub),
                      "owner_not_owned")
                 \cup (IF owner_is_del(f_owned, owner_patch_info.active_mask.f, ub)
                       THEN {"owner_deleted"}
                       ELSE When(face_edges_differ(h, d, hw, dw), "differs"))
        ELSE {}

\* the atomicAdds of the thread of edge e of patch p
not_owned_edge(m, p, e, ub) ==
    LET pi == m.patches[p]
    IN  IF ~is_deleted(e, pi.active_mask.e, ub) /\ ~is_owned(e, pi.owned_mask.e, ub)
        THEN LET h == [k \in 0 .. 1 |->
                         get_owned(m, "v", s_ev(pi, 2 * e + k, ub), p, pi, ub)]
                 e_pair  == find(pi.lp.e, e)
                 e_owned == local_id_in_owner_patch(e_pair, ub)
                 e_patch == get_patch(m, pi.patch_stash, e_pair, ub)
                 owner_patch_info == m.patches[e_patch]
                 hw == [k \in 0 .. 1 |->
                          get_owned(m, "v", ev_at(owner_patch_info, 2 * e_owned + k, ub),
                                    e_patch, owner_patch_info, ub)]
             IN  When(owner_lacks_owned_bit(e_owned, owner_patch_info.owned_mask.e, ub),
                      "owner_not_owned")
                 \cup (IF owner_is_del(e_owned, owner_patch_info.active_mask.e, ub)
                       THEN {"owner_deleted"}
                       ELSE When(edge_vertices_differ(h, hw), "differs"))
        ELSE {}

\* kernel check_not_owned: every atomicAdd on d_check, over all blocks
check_not_owned(m, ub) ==
    UNION {{Site("check_not_owned", "f", h, w) :
                w \in not_owned_face(m, h.patch, h.lid, ub)} : h \in Elements(m, "f")}
    \cup
    UNION {{Site("check_not_owned", "e", h, w) :
                w \in not_owned_edge(m, h.patch, h.lid, ub)} : h \in Elements(m, "e")}

-----------------------------------------------------------------------------
(* Ribbon check, part 1: every owned edge is incident to an owned face *)

face_marks_NotOwnedToo(pi, f, ub) == ~is_deleted(f, pi.active_mask.f, ub)

\* the faces that run mark_if_owned on their three edges
face_marks(pi, f, ub) ==
    ~is_deleted(f, pi.active_mask.f, ub) /\ is_owned(f, pi.owned_mask.f, ub)

\* s_mark_edges[e] at the second block.sync(): one atomicAdd per slot of a
\* marking face that holds e (s_fe[3 * f + k] >> 1), if e is owned
s_mark_edges(pi, e, ub) ==
    Cardinality({s \in DOMAIN pi.fe :
                    /\ face_marks(pi, s \div 3, ub)
                    /\ pi.fe[s] \div 2 = e
                    /\ is_owned(e, pi.owned_mask.e, ub)})

\* the atomicAdd of the thread of edge e in the last loop
ribbon_edge(pi, e, ub) ==
    IF is_owned(e, pi.owned_mask.e, ub)
    THEN When(s_mark_edges(pi, e, ub) = 0, "unmarked")
    ELSE {}

\* kernel check_ribbon_edges: every atomicAdd on d_check, over all blocks
check_ribbon_edges(m, ub) ==
    UNION {{Site("check_ribbon_edges", "e", h, w) :
                w \in ribbon_edge(PatchOf(m, h), h.lid, ub)} : h \in Elements(m, "e")}

-----------------------------------------------------------------------------
(* Ribbon check, part 2: the global VF of the vertices of owned faces is    *)
(* found in the patch                                                       *)

\* f_v: s_fv[3 * f + k], the k-th vertex of face f through the edge's
\* direction; the entries of a deleted face hold no vertex
f_v(pi, f, k, ub) ==
    IF ~is_deleted(f, pi.active_mask.f, ub)
    THEN s_ev(pi, 2 * unpack_edge(pi.fe[3 * f + k]) + unpack_dir(pi.fe[3 * f + k]), ub)
    ELSE ub.val

\* block_mat_transpose writes inside its arrays only if every vertex of every
\* non-deleted face is a vertex of the patch
transpose_in_range(pi, ub) ==
    \A f \in Idx(pi.num.f) : \A k \in 0 .. 2 :
        is_deleted(f, pi.active_mask.f, ub) \/ f_v(pi, f, k, ub) \in Idx(pi.num.v)

\* block_mat_transpose: the local faces s_vf_value[s_vf_offset[v] ..
\* s_vf_offset[v + 1] - 1], the non-deleted faces that have v as a vertex
local_vf(pi, v, ub) ==
    IF v \in Idx(pi.num.v) /\ transpose_in_range(pi, ub)
    THEN {f \in Idx(pi.num.f) :
            /\ ~is_deleted(f, pi.active_mask.f, ub)
            /\ \E k \in 0 .. 2 : f_v(pi, f, k, ub) = v}
    ELSE IF ub.bit THEN Idx(pi.num.f) ELSE {}

\* compute_vf (query_block_dispatcher<Op::VF>): the valid face handles stored
\* in the attribute rows of every vertex slot
compute_vf(m, ub) ==
    [vh \in Elements(m, "v") |->
        LET pi == PatchOf(m, vh)
        IN  IF pi.owned_mask.v[vh.lid] /\ pi.active_mask.v[vh.lid]
            THEN {get_owned(m, "f", fl, vh.patch, pi, ub) :
                    fl \in local_vf(pi, vh.lid, ub)}
            ELSE {}]

\* the valid handles among global_vf(vh, 0 .. get_num_attributes() - 1)
global_vf_row(vf, vh, ub) ==
    IF vh \in DOMAIN vf THEN vf[vh]
    ELSE IF ub.bit THEN {Handle(vh.patch, 0)} ELSE {}

ribbon_face_vertex_missing_Unresolved(m, vf, p, f, k, ub) ==
    LET pi   == m.patches[p]
        v_id == f_v(pi, f, k, ub)
        vh   == get_owned(m, "v", v_id, p, pi, ub)
    IN  \E g \in global_vf_row(vf, vh, ub) :
            \A f_lid \in local_vf(pi, v_id, ub) : g # Handle(p, f_lid)

\* for vertex k of face f: some valid global_vf(vh, i) is found in no entry of
\* the local VF of the vertex (found stays false)
ribbon_face_vertex_missing(m, vf, p, f, k, ub) ==
    LET pi   == m.patches[p]
        v_id == f_v(pi, f, k, ub)
        vh   == get_owned(m, "v", v_id, p, pi, ub)
    IN  \E g \in global_vf_row(vf, vh, ub) :
            \A f_lid \in local_vf(pi, v_id, ub) :
                g # get_owned(m, "f", f_lid, p, pi, ub)

\* Only if the face is owned, we do the check
ribbon_face_examined(pi, f, ub) == is_owned(f, pi.owned_mask.f, ub)

\* the atomicAdds of the thread of face f of patch p, one per vertex k
ribbon_face(m, vf, p, f, ub) ==
    IF ribbon_face_examined(m.patches[p], f, ub)
    THEN When(ribbon_face_vertex_missing(m, vf, p, f, 0, ub), "vf_0")
         \cup When(ribbon_face_vertex_missing(m, vf, p, f, 1, ub), "vf_1")
         \cup When(ribbon_face_vertex_missing(m, vf, p, f, 2, ub), "vf_2")
    ELSE {}

\* kernel check_ribbon_faces: every atomicAdd on d_check, over all blocks
check_ribbon_faces(m, vf, ub) ==
    UNION {{Site("check_ribbon_faces", "f", h, w) :
                w \in ribbon_face(m, vf, h.patch, h.lid, ub)} : h \in Elements(m, "f")}

-----------------------------------------------------------------------------
(* Bitmask (src/unnamed/part_000): m_size bits kept in 32-bit words.  A word *)
(* is the set of the positions 0..31 of its set bits, m_bitmask a function   *)
(* over the word indices.                                                    *)

WordBits == 32

\* the word with every bit set
INVALID32 == 0 .. WordBits - 1

DIVIDE_UP(num, divisor) == (num + divisor - 1) \div divisor

mask_num_elements(size) == DIVIDE_UP(size, WordBits)

Threads == Idx(MaxThreads)

\* a mask of one bit, a full word plus one bit, ...
Sizes == {WordBits * (w - 1) + 1 : w \in 1 .. MaxWords}

\* bit arguments: the first two bits, the last bit, the first bit past the
\* size (in the padding of the last word) and the first bit past the words
BitInputs(size) ==
    {0, 1, size - 1, size, WordBits * mask_num_elements(size)}

\* the loops of the host reset() and set(): every word gets the value
fill_words(bitmask, mask_num, value) ==
    [i \in DOMAIN bitmask |-> IF i < mask_num THEN value ELSE bitmask[i]]

bitmask_int_index(bit) == bit \div WordBits

bitmask_bit_mask(bit) == {bit % WordBits}

\* the new value of a word under set, reset (clear) and flip of one bit
bitmask_set_bit(word, bit) == word \cup bitmask_bit_mask(bit)

bitmask_clear_bit(word, bit) == word \ bitmask_bit_mask(bit)

bitmask_flip_bit(word, bit) ==
    (word \ bitmask_bit_mask(bit)) \cup (bitmask_bit_mask(bit) \ word)

bitmask_word(kind, word, bit) ==
    CASE kind = "set" -> bitmask_set_bit(word, bit)
      [] kind = "reset" -> bitmask_clear_bit(word, bit)
      [] kind = "flip" -> bitmask_flip_bit(word, bit)
      [] OTHER -> word

bitmask_apply_EveryWord(kind, bitmask, bit) ==
    [w \in DOMAIN bitmask |-> bitmask_word(kind, bitmask[w], bit)]

\* the whole mask after one single-bit operation
bitmask_apply(kind, bitmask, bit) ==
    [bitmask EXCEPT ![bitmask_int_index(bit)] = bitmask_word(kind, @, bit)]

\* Bitmask::operator(): detail::is_set_bit on the words
test_bit(bit, bitmask) ==
    (bit % WordBits) \in bitmask[bitmask_int_index(bit)]

\* assert(bit < size()) and what follows it: "ok" the bit is accessed,
\* "assert" the assertion fails, "oob" the build without assertions accesses
\* memory outside the words.  A bit past the size inside the last word is
\* accessed like any other when assertions are compiled out.
bit_access_NoAssert(bit, size, nd) ==
    IF bitmask_int_index(bit) < mask_num_elements(size) THEN "ok" ELSE "oob"

bit_access(bit, size, nd) ==
    IF bit < size THEN "ok"
    ELSE IF ~nd THEN "assert"
    ELSE IF bitmask_int_index(bit) < mask_num_elements(size) THEN "ok"
    ELSE "oob"

\* on the device is_atomic selects atomicOr / atomicAnd / atomicXor, one
\* indivisible step; otherwise the word is loaded, changed and stored
bitmask_op_is_atomic_Ignored(is_atomic) == FALSE

bitmask_op_is_atomic(is_atomic) == is_atomic

IdleThread ==
    [pc |-> "idle", kind |-> "none", bit |-> 0, atomic |-> FALSE, reg |-> {},
     i |-> 0, result |-> "none"]

NoCall == [kind |-> "none", bit |-> 0, result |-> "none"]

HostPhase == [name |-> "host", kind |-> "none", g |-> 0, start |-> <<>>]

\* the masks that applying the calls of the threads in S one after the other,
\* in any order, can leave
RECURSIVE SequentialResults(_, _, _)
SequentialResults(bitmask, th, S) ==
    IF S = {} THEN {bitmask}
    ELSE UNION {SequentialResults(bitmask_apply(th[t].kind, bitmask, th[t].bit),
                                  th, S \ {t}) : t \in S}

\* a Bitmask that no one uses (the validator and update_host() runs)
NoBitmask ==
    /\ ndebug = FALSE
    /\ m_size = 1
    /\ m_bitmask = [w \in Idx(1) |-> {}]
    /\ phase = HostPhase
    /\ thr = [t \in Threads |-> IdleThread]
    /\ trap = "none"
    /\ outcomes = {}
    /\ last = NoCall

-----------------------------------------------------------------------------
(* Shared memory of the validator kernels.  A kernel is the sequence of its  *)
(* stages in source order: an access stage gives, per thread of the block,   *)
(* the shared cells it writes (w), reads (r) and updates atomically (a); a   *)
(* sync stage is a block.sync().  Threads run their stages independently     *)
(* between two barriers.                                                     *)

Cell(arr, S) == {[arr |-> arr, cell |-> c] : c \in S}

\* for (i = threadIdx.x; i < n; i += blockThreads)
Strided(t, n) == {i \in Idx(n) : i % MaxThreads = t}

\* the cells width * x + k of the elements x a thread's loop visits
Rows(t, n, width) ==
    UNION {{width * x + k : k \in Idx(width)} : x \in Strided(t, n)}

\* cells addressed through loaded data, by a thread whose loop has an element
AnyCell(t, n, arr, size) == IF Strided(t, n) # {} THEN Cell(arr, Idx(size)) ELSE {}

NoCells == [t \in Threads |-> {}]

Access(line, w, r, a) == [kind |-> "access", line |-> line, w |-> w, r |-> r, a |-> a]

Barrier(line) ==
    [kind |-> "sync", line |-> line, w |-> NoCells, r |-> NoCells, a |-> NoCells]

\* load_async(block, src, n, dst, wait): the block copies n entries, each
\* thread its share; the wait is for the thread's own copies
load_async(line, dst, n) ==
    Access(line, [t \in Threads |-> Cell(dst, Strided(t, n))], NoCells, NoCells)

\* f_v: each thread replaces the three edges of its faces in s_fv by vertices
\* read from s_ev
f_v_shared(line, num) ==
    Access(line,
           [t \in Threads |-> Cell("s_fv", Rows(t, num.f, 3))],
           [t \in Threads |-> Cell("s_fv", Rows(t, num.f, 3))
                                  \cup AnyCell(t, num.f, "s_ev", 2 * num.e)],
           NoCells)

\* block_mat_transpose: every thread takes the FV rows of its faces from
\* s_fe, the block synchronises, and the offsets are left in s_fe and the
\* values in s_ev; the writes are followed by no barrier of the call's own
block_mat_transpose_shared(line, num) ==
    <<Access(line, NoCells,
             [t \in Threads |-> Cell("s_fe", Rows(t, num.f, 3))], NoCells),
      Barrier(line),
      Access(line,
             [t \in Threads |-> Cell("s_fe", Strided(t, num.v + 1))
                                    \cup Cell("s_ev", Rows(t, num.f, 3))],
             NoCells, NoCells)>>

check_uniqueness_stages(num) ==
    <<load_async(132, "s_ev", 2 * num.e),
      load_async(138, "s_fe", 3 * num.f),
      Barrier(143),
      Access(146, NoCells,
             [t \in Threads |-> Cell("s_ev", Rows(t, num.e, 2))], NoCells),
      Access(166, NoCells,
             [t \in Threads |-> Cell("s_fe", Rows(t, num.f, 3))
                                    \cup AnyCell(t, num.f, "s_ev", 2 * num.e)],
             NoCells)>>

check_not_owned_stages(num) ==
    <<load_async(230, "s_ev", 2 * num.e),
      load_async(236, "s_fe", 3 * num.f),
      Barrier(241),
      Access(246, NoCells,
             [t \in Threads |-> Cell("s_fe", Rows(t, num.f, 3))], NoCells),
      Access(319, NoCells,
             [t \in Threads |-> Cell("s_ev", Rows(t, num.e, 2))], NoCells)>>

check_ribbon_edges_stages(num) ==
    <<load_async(392, "s_fe", 3 * num.f),
      Access(400, [t \in Threads |-> Cell("s_mark_edges", Strided(t, num.e))],
             NoCells, NoCells),
      Barrier(405),
      Access(413, NoCells,
             [t \in Threads |-> Cell("s_fe", Rows(t, num.f, 3))],
             [t \in Threads |-> AnyCell(t, num.f, "s_mark_edges", num.e)]),
      Barrier(434),
      Access(435, NoCells,
             [t \in Threads |-> Cell("s_mark_edges", Strided(t, num.e))],
             NoCells)>>

check_ribbon_faces_stages(num) ==
    <<load_async(495, "s_ev", 2 * num.e),
      load_async(500, "s_fv", 3 * num.f),
      Barrier(505),
      f_v_shared(509, num),
      Barrier(514),
      Access(517, [t \in Threads |-> Cell("s_fe", Strided(t, 3 * num.f))],
             [t \in Threads |-> Cell("s_fv", Strided(t, 3 * num.f))], NoCells),
      Barrier(521)>>
    \o block_mat_transpose_shared(526, num)
    \o <<Access(535, NoCells,
                [t \in Threads |-> Cell("s_fv", Rows(t, num.f, 3))
                                       \cup AnyCell(t, num.f, "s_fe", num.v + 1)
                                       \cup AnyCell(t, num.f, "s_ev", 3 * num.f)],
                NoCells)>>

SharedKernels ==
    {"check_uniqueness", "check_not_owned", "check_ribbon_edges",
     "check_ribbon_faces"}

Stages(name, num) ==
    CASE name = "check_uniqueness" -> check_uniqueness_stages(num)
      [] name = "check_not_owned" -> check_not_owned_stages(num)
      [] name = "check_ribbon_edges" -> check_ribbon_edges_stages(num)
      [] name = "check_ribbon_faces" -> check_ribbon_faces_stages(num)
      [] OTHER -> <<>>

NoKernelRunning == [name |-> "none", patch |-> 0]

\* no validator kernel inspected at the level of its shared memory
NoKernel ==
    /\ kern = NoKernelRunning
    /\ k_pc = [t \in Threads |-> 0]
    /\ s_written = {}
    /\ races = {}

-----------------------------------------------------------------------------
(* RXMeshDynamic::update_host(): the host mirrors m_h_patches_info, the host  *)
(* counts and prefix sums, and the device summary arrays.  A host buffer is  *)
(* a function over 0 .. size-1; a device array holds exactly the entries of  *)
(* the current count.                                                        *)

\* a host buffer of the given size holding src in its first entries
HostBuffer(src, size, fill) ==
    [i \in Idx(size) |-> IF i \in DOMAIN src THEN src[i] ELSE fill]

\* cudaMemcpy of the first n entries of src into the host buffer dst
memcpy(dst, src, n) ==
    [i \in DOMAIN dst |-> IF i < n THEN src[i] ELSE dst[i]]

\* free(buf); buf = malloc(n entries) when the count exceeds the capacity
realloc_if_larger(buf, size, capacity, n, fill) ==
    IF size > capacity THEN [i \in Idx(n) |-> fill] ELSE buf

resize_capacity_Always(size, capacity) == size

\* the capacity after resize_masks
resize_capacity(size, capacity) == IF size > capacity THEN size ELSE capacity

\* PatchInfo::get_num_owned_vertices / _edges / _faces on the host mirror
get_num_owned(hp, t) ==
    Cardinality({i \in Idx(hp.num[t]) : hp.owned_mask[t][i]})

\* the body of the first loop for one patch: hp is m_h_patches_info[p],
\* d_patch the PatchInfo read from the device
copy_patch(hp, d_patch) ==
    LET num == d_patch.num
        cap == hp.capacity
        ev  == realloc_if_larger(hp.ev, num.e, cap.e, 2 * num.e, 0)
        fe  == realloc_if_larger(hp.fe, num.f, cap.f, 3 * num.f, 0)
    IN  [num         |-> num,
         capacity    |-> [t \in Types |-> resize_capacity(num[t], cap[t])],
         ev          |-> memcpy(ev, d_patch.ev, 2 * num.e),
         fe          |-> memcpy(fe, d_patch.fe, 3 * num.f),
         active_mask |-> [t \in Types |->
                            memcpy(realloc_if_larger(hp.active_mask[t], num[t], cap[t],
                                                     num[t], FALSE),
                                   d_patch.active_mask[t], num[t])],
         owned_mask  |-> [t \in Types |->
                            memcpy(realloc_if_larger(hp.owned_mask[t], num[t], cap[t],
                                                     num[t], FALSE),
                                   d_patch.owned_mask[t], num[t])],
         patch_stash |-> d_patch.patch_stash,
         lp          |-> d_patch.lp,
         lp_capacity |-> hp.lp_capacity]

\* the cudaMemcpy calls of the first loop for one patch: the number of entries
\* each writes (n) and the number the host buffer holds when it is written
\* (size).  ev, fe and the masks are written after their reallocation; the
\* LP tables are written with the device table's num_bytes() into the host
\* table as it is.  The two kinds of stash have a compile-time size.
copy_patch_writes(hp, d_patch) ==
    LET num == d_patch.num
        cap == hp.capacity
        len(buf) == Cardinality(DOMAIN buf)
        Write(what, t, n, size) == [what |-> what, type |-> t, n |-> n, size |-> size]
    IN  {Write("ev", "e", 2 * num.e,
               len(realloc_if_larger(hp.ev, num.e, cap.e, 2 * num.e, 0))),
         Write("fe", "f", 3 * num.f,
               len(realloc_if_larger(hp.fe, num.f, cap.f, 3 * num.f, 0)))}
        \cup {Write("active_mask", t, num[t],
                    len(realloc_if_larger(hp.active_mask[t], num[t], cap[t], num[t], FALSE)))
                : t \in Types}
        \cup {Write("owned_mask", t, num[t],
                    len(realloc_if_larger(hp.owned_mask[t], num[t], cap[t], num[t], FALSE)))
                : t \in Types}
        \cup {Write("lp", t, d_patch.lp_capacity[t], hp.lp_capacity[t]) : t \in Types}
        \cup {Write("patch_stash", "v", len(d_patch.patch_stash), len(hp.patch_stash))}

prefix_next_NoCarry(prefix, owned, p) == owned[p]

prefix_next_Accumulate(prefix, owned, p) == prefix[p + 1] + owned[p]

\* m_h_vertex_prefix[p + 1] = m_h_vertex_prefix[p] + m_h_num_owned_v[p]
prefix_next(prefix, owned, p) == prefix[p] + owned[p]

\* the second loop, for one element type, from patch p on
RECURSIVE prefix_sum(_, _, _, _)
prefix_sum(prefix, owned, p, n) ==
    IF p >= n
    THEN prefix
    ELSE prefix_sum([prefix EXCEPT ![p + 1] = prefix_next(prefix, owned, p)],
                    owned, p + 1, n)

\* the three prefix-sum reports, with the arguments the code passes
prefix_errors(m_num, prefix, n) ==
    When(prefix.v[n] # m_num.v,
         [what |-> "m_num_vertices", count |-> m_num.v, total |-> prefix.v[n]])
    \cup When(prefix.e[n] # m_num.e,
              [what |-> "m_num_edges", count |-> m_num.f, total |-> prefix.f[n]])
    \cup When(prefix.f[n] # m_num.f,
              [what |-> "m_num_faces", count |-> m_num.e, total |-> prefix.e[n]])

\* the report when the device's patch count is not the host's
patch_count_errors(num_patches, m_num_patches) ==
    When(num_patches # m_num_patches,
         [what |-> "num_patches", count |-> num_patches, total |-> m_num_patches])

\* calc_max_elements: the largest per-patch count of each type
calc_max_elements(patches) ==
    [t \in Types |->
        CHOOSE n \in {patches[p].num[t] : p \in DOMAIN patches} :
            \A p \in DOMAIN patches : patches[p].num[t] <= n]

\* update_host() as a function of the host state h, the device mesh m and the
\* device's patch count: the new host state, the summary arrays pushed to the
\* device and the reports
update_host(h, m, num_patches) ==
    LET n       == h.m_num_patches
        patches == [p \in Idx(n) |-> copy_patch(h.patches[p], m.patches[p])]
        h_num   == [t \in Types |-> [p \in Idx(n) |-> patches[p].num[t]]]
        owned   == [t \in Types |-> [p \in Idx(n) |-> get_num_owned(patches[p], t)]]
        prefix  == [t \in Types |-> prefix_sum(h.prefix[t], owned[t], 0, n)]
    IN  [host   |-> [m_num_patches |-> n,
                     patches       |-> patches,
                     m_num         |-> m.num,
                     h_num         |-> h_num,
                     h_num_owned   |-> owned,
                     prefix        |-> prefix,
                     max_per_patch |-> calc_max_elements(patches)],
         dsum   |-> [num |-> h_num, owned |-> owned],
         errors |-> patch_count_errors(num_patches, n)
                    \cup prefix_errors(m.num, prefix, n)]

\* m_h_patches_info[p] as built with the device patch: the same contents in
\* buffers of the patch's capacity
HostPatchInfo(pi, extra) ==
    LET cap == [t \in Types |-> pi.num[t] + extra]
    IN  [num         |-> pi.num,
         capacity    |-> cap,
         ev          |-> HostBuffer(pi.ev, 2 * cap.e, 0),
         fe          |-> HostBuffer(pi.fe, 3 * cap.f, 0),
         active_mask |-> [t \in Types |-> HostBuffer(pi.active_mask[t], cap[t], FALSE)],
         owned_mask  |-> [t \in Types |-> HostBuffer(pi.owned_mask[t], cap[t], FALSE)],
         patch_stash |-> pi.patch_stash,
         lp          |-> pi.lp,
         lp_capacity |-> pi.lp_capacity]

\* the host state of a mesh object built over m, capacities extra above the counts
InitialHost(m, extra) ==
    LET n       == Cardinality(Patches(m))
        patches == [p \in Idx(n) |-> HostPatchInfo(m.patches[p], extra)]
        owned   == [t \in Types |-> [p \in Idx(n) |-> get_num_owned(patches[p], t)]]
    IN  [m_num_patches |-> n,
         patches       |-> patches,
         m_num         |-> m.num,
         h_num         |-> [t \in Types |-> [p \in Idx(n) |-> patches[p].num[t]]],
         h_num_owned   |-> owned,
         prefix        |-> [t \in Types |->
                              prefix_sum([k \in 0 .. n |-> 0], owned[t], 0, n)],
         max_per_patch |-> calc_max_elements(patches)]

InitialSummary(h) == [num |-> h.h_num, owned |-> h.h_num_owned]

-----------------------------------------------------------------------------
(* RXMeshDynamic::validate() *)

\* the lambda is_okay: h_check read back from d_check
is_okay(h_check) == IF h_check # 0 THEN FALSE ELSE TRUE

update_success_LastWins(s, ok) == ok

\* if (!check()) { success = false; }
update_success(s, ok) == IF ~ok THEN FALSE ELSE s

d_check_at_launch_Carried(check, d) == IF check = "uniqueness" THEN 0 ELSE d

\* cudaMemset(d_check, 0, ...) at the start of a check lambda: the value of
\* the counter when the check's first kernel is launched
d_check_at_launch(check, d) == 0

ribbon_after_edges_AlwaysReturn(okay) == "finish"

\* check_ribbon after its first kernel: if (!is_okay()) return false;
ribbon_after_edges(okay) == IF ~okay THEN "finish" ELSE "compute_vf"

NotRun(S) == [c \in S |-> None]

NoCounts == [c \in Counters |-> -1]

\* a bool as recorded in passed and ret, which also hold None
Bool(b) == IF b THEN "true" ELSE "false"

Init ==
    /\ mesh = ValidMesh
    /\ edits = 0
    /\ restored = FALSE
    /\ pc = "idle"
    /\ m_quite \in BOOLEAN
    /\ cached_quite = FALSE
    /\ d_check = None
    /\ success = TRUE
    /\ passed = NotRun(Checks)
    /\ count = NoCounts
    /\ flagged = {}
    /\ launched = {}
    /\ vf_global = None
    /\ attributes = {}
    /\ ret = None
    /\ d_num_patches = Cardinality(Patches(ValidMesh))
    /\ host = InitialHost(ValidMesh, 0)
    /\ dsum = InitialSummary(host)
    /\ errors = {}
    /\ calls_since = 0
    /\ NoBitmask
    /\ NoKernel

\* entry of validate(): the flag is cached and overridden, d_check allocated
ValidateBegin ==
    /\ pc = "idle"
    /\ pc' = "check_num_mesh_elements"
    /\ cached_quite' = m_quite
    /\ m_quite' = TRUE
    /\ d_check' = Uninit
    /\ success' = TRUE
    /\ passed' = NotRun(Checks)
    /\ count' = NoCounts
    /\ flagged' = {}
    /\ launched' = {}
    /\ ret' = None
    /\ UNCHANGED <<mesh, edits, restored, vf_global, attributes>>
    /\ UNCHANGED <<d_num_patches, hostvars, bitvars, kernvars>>

CheckNumMeshElements ==
    /\ pc = "check_num_mesh_elements"
    /\ \E ok \in {check_num_mesh_elements(mesh)} :
           /\ passed' = [passed EXCEPT !["num_mesh_elements"] = Bool(ok)]
           /\ success' = update_success(success, ok)
    /\ launched' = launched \cup {"calc_num_elements"}
    /\ pc' = "check_uniqueness"
    /\ UNCHANGED <<mesh, edits, restored, m_quite, cached_quite, d_check, count,
                   flagged, vf_global, attributes, ret>>
    /\ UNCHANGED <<d_num_patches, hostvars, bitvars, kernvars>>

CheckUniqueness ==
    /\ pc = "check_uniqueness"
    /\ \E ub \in UB(mesh) : \E adds \in {check_uniqueness(mesh, ub)} :
        \E h_check \in {d_check_at_launch("uniqueness", d_check) + Cardinality(adds)} :
            /\ flagged' = flagged \cup adds
            /\ d_check' = h_check
            /\ count' = [count EXCEPT !["uniqueness"] = h_check]
            /\ passed' = [passed EXCEPT !["uniqueness"] = Bool(is_okay(h_check))]
            /\ success' = update_success(success, is_okay(h_check))
    /\ launched' = launched \cup {"check_uniqueness"}
    /\ pc' = "check_not_owned"
    /\ UNCHANGED <<mesh, edits, restored, m_quite, cached_quite,
                   vf_global, attributes, ret>>
    /\ UNCHANGED <<d_num_patches, hostvars, bitvars, kernvars>>

CheckNotOwned ==
    /\ pc = "check_not_owned"
    /\ \E ub \in UB(mesh) : \E adds \in {check_not_owned(mesh, ub)} :
        \E h_check \in {d_check_at_launch("not_owned", d_check) + Cardinality(adds)} :
            /\ flagged' = flagged \cup adds
            /\ d_check' = h_check
            /\ count' = [count EXCEPT !["not_owned"] = h_check]
            /\ passed' = [passed EXCEPT !["not_owned"] = Bool(is_okay(h_check))]
            /\ success' = update_success(success, is_okay(h_check))
    /\ launched' = launched \cup {"check_not_owned"}
    /\ pc' = "check_ribbon_edges"
    /\ UNCHANGED <<mesh, edits, restored, m_quite, cached_quite,
                   vf_global, attributes, ret>>
    /\ UNCHANGED <<d_num_patches, hostvars, bitvars, kernvars>>

\* check_ribbon up to its first is_okay()
CheckRibbonEdges ==
    /\ pc = "check_ribbon_edges"
    /\ \E ub \in UB(mesh) : \E adds \in {check_ribbon_edges(mesh, ub)} :
        \E h_check \in {d_check_at_launch("ribbon", d_check) + Cardinality(adds)} :
            /\ flagged' = flagged \cup adds
            /\ d_check' = h_check
            /\ count' = [count EXCEPT !["ribbon_edges"] = h_check]
            /\ pc' = ribbon_after_edges(is_okay(h_check))
            /\ IF ribbon_after_edges(is_okay(h_check)) = "finish"
               THEN /\ passed' = [passed EXCEPT !["ribbon"] = Bool(FALSE)]
                    /\ success' = update_success(success, FALSE)
               ELSE UNCHANGED <<passed, success>>
    /\ launched' = launched \cup {"check_ribbon_edges"}
    /\ UNCHANGED <<mesh, edits, restored, m_quite, cached_quite, vf_global,
                   attributes, ret>>
    /\ UNCHANGED <<d_num_patches, hostvars, bitvars, kernvars>>

\* check_ribbon: compute_max_valence, add_vertex_attribute("vf"), compute_vf
ComputeVF ==
    /\ pc = "compute_vf"
    /\ \E ub \in UB(mesh) : vf_global' = compute_vf(mesh, ub)
    /\ attributes' = attributes \cup {"vf"}
    /\ launched' = launched \cup {"compute_max_valence", "compute_vf"}
    /\ pc' = "check_ribbon_faces"
    /\ UNCHANGED <<mesh, edits, restored, m_quite, cached_quite, d_check, success,
                   passed, count, flagged, ret>>
    /\ UNCHANGED <<d_num_patches, hostvars, bitvars, kernvars>>

\* check_ribbon from the launch of check_ribbon_faces to its return
CheckRibbonFaces ==
    /\ pc = "check_ribbon_faces"
    /\ \E ub \in UB(mesh) : \E adds \in {check_ribbon_faces(mesh, vf_global, ub)} :
        \E h_check \in {d_check + Cardinality(adds)} :
            /\ flagged' = flagged \cup adds
            /\ d_check' = h_check
            /\ count' = [count EXCEPT !["ribbon_faces"] = h_check]
            /\ passed' = [passed EXCEPT !["ribbon"] = Bool(is_okay(h_check))]
            /\ success' = update_success(success, is_okay(h_check))
    /\ launched' = launched \cup {"check_ribbon_faces"}
    /\ pc' = "finish"
    /\ UNCHANGED <<mesh, edits, restored, m_quite, cached_quite,
                   vf_global, attributes, ret>>
    /\ UNCHANGED <<d_num_patches, hostvars, bitvars, kernvars>>

ValidateEnd_NoRestore ==
    /\ pc = "finish"
    /\ d_check' = None
    /\ ret' = Bool(success)
    /\ vf_global' = None
    /\ pc' = "idle"
    /\ UNCHANGED <<mesh, edits, restored, m_quite, cached_quite, success, passed,
                   count, flagged, launched, attributes>>
    /\ UNCHANGED <<d_num_patches, hostvars, bitvars, kernvars>>

\* cudaFree(d_check); m_quite = cached_quite; return success
ValidateEnd ==
    /\ pc = "finish"
    /\ d_check' = None
    /\ m_quite' = cached_quite
    /\ ret' = Bool(success)
    /\ vf_global' = None
    /\ pc' = "idle"
    /\ UNCHANGED <<mesh, edits, restored, cached_quite, success, passed, count,
                   flagged, launched, attributes>>
    /\ UNCHANGED <<d_num_patches, hostvars, bitvars, kernvars>>

-----------------------------------------------------------------------------
(* Mutations of the device mesh between calls (dynamic-edit kernels); the   *)
(* mesh is quiescent while validate() runs.                                 *)

\* a change of the mesh ends what is known from the last validate()
Changed(m) ==
    /\ pc = "idle"
    /\ trap = "none"
    /\ mesh' = m
    /\ cached_quite' = FALSE
    /\ success' = TRUE
    /\ passed' = NotRun(Checks)
    /\ count' = NoCounts
    /\ flagged' = {}
    /\ launched' = {}
    /\ ret' = None
    /\ calls_since' = 0
    /\ UNCHANGED <<pc, m_quite, d_check, vf_global, attributes>>
    /\ UNCHANGED <<d_num_patches, host, dsum, errors>>
    /\ UNCHANGED <<bitvars, kernvars>>

Edited(m) ==
    /\ edits < MaxEdits
    /\ m # mesh
    /\ Changed(m)
    /\ edits' = edits + 1
    /\ restored' = FALSE

\* an ev entry is overwritten (num_vertices stands for any out-of-range index)
EditEV ==
    \E p \in Patches(mesh) : \E i \in DOMAIN mesh.patches[p].ev :
        \E v \in 0 .. mesh.patches[p].num.v :
            Edited([mesh EXCEPT !.patches[p].ev[i] = v])

\* an fe entry is overwritten (edge num_edges stands for any out-of-range index)
EditFE ==
    \E p \in Patches(mesh) : \E i \in DOMAIN mesh.patches[p].fe :
        \E x \in 0 .. 2 * mesh.patches[p].num.e + 1 :
            Edited([mesh EXCEPT !.patches[p].fe[i] = x])

FlipActive ==
    \E p \in Patches(mesh) : \E t \in Types : \E i \in Idx(mesh.patches[p].num[t]) :
        Edited([mesh EXCEPT !.patches[p].active_mask[t][i] = ~@])

FlipOwned ==
    \E p \in Patches(mesh) : \E t \in Types : \E i \in Idx(mesh.patches[p].num[t]) :
        Edited([mesh EXCEPT !.patches[p].owned_mask[t][i] = ~@])

\* an LP entry is pointed at another element of the owner patch
EditLP ==
    \E p \in Patches(mesh) : \E t \in Types : \E i \in Idx(mesh.patches[p].num[t]) :
        LET pi == mesh.patches[p]
        IN  /\ pi.lp[t][i] # NoPair
            /\ \E lid \in Idx(mesh.patches[pi.patch_stash[pi.lp[t][i].stash]].num[t]) :
                  Edited([mesh EXCEPT !.patches[p].lp[t][i].lid = lid])

\* a global count of the Context moves by one
EditGlobalCount ==
    \E t \in Types : \E n \in {mesh.num[t] - 1, mesh.num[t] + 1} :
        /\ n >= 0
        /\ Edited([mesh EXCEPT !.num[t] = n])

\* the mutation is undone: the valid partition is back
Restore ==
    /\ edits > 0
    /\ mesh # ValidMesh
    /\ Changed(ValidMesh)
    /\ restored' = TRUE
    /\ UNCHANGED edits

\* a dynamic-edit kernel appends one element to a patch: the count grows by
\* one, the new element is active, owned or a ribbon copy, and an owned one
\* is counted in the global count
DevAddElement ==
    \E p \in Patches(mesh) : \E t \in Types : \E own \in BOOLEAN :
        LET pi   == mesh.patches[p]
            n    == pi.num[t]
            pair == IF own THEN NoPair ELSE LPPair(0, 0)
            grown == [pi EXCEPT
                        !.num[t] = n + 1,
                        !.active_mask[t] = [i \in Idx(n + 1) |->
                                              IF i < n THEN @[i] ELSE TRUE],
                        !.owned_mask[t] = [i \in Idx(n + 1) |->
                                              IF i < n THEN @[i] ELSE own],
                        !.lp[t] = [i \in Idx(n + 1) |-> IF i < n THEN @[i] ELSE pair],
                        !.ev = IF t = "e"
                               THEN [i \in Idx(2 * n + 2) |->
                                        IF i < 2 * n THEN @[i] ELSE i - 2 * n]
                               ELSE @,
                        !.fe = IF t = "f"
                               THEN [i \in Idx(3 * n + 3) |->
                                        IF i < 3 * n THEN @[i] ELSE 2 * (i - 3 * n)]
                               ELSE @]
        IN  Edited([mesh EXCEPT !.patches[p] = grown,
                                !.num[t] = IF own THEN @ + 1 ELSE @])

\* the LP table of one type of a patch is reallocated with one more slot on
\* the device and rehashed: the pairs it maps are the same
DevGrowLP ==
    \E p \in Patches(mesh) : \E t \in Types :
        Edited([mesh EXCEPT !.patches[p].lp_capacity[t] = @ + 1])

\* the device's patch count moves away from the host's
DevSetNumPatches ==
    /\ pc = "idle"
    /\ trap = "none"
    /\ d_num_patches = host.m_num_patches
    /\ \E n \in {host.m_num_patches - 1, host.m_num_patches + 1} : d_num_patches' = n
    /\ calls_since' = 0
    /\ UNCHANGED <<mesh, edits, restored, validatevars, host, dsum, errors>>
    /\ UNCHANGED <<bitvars, kernvars>>

\* the copies of a call that write past the end of their host buffer
overflows(h, m) ==
    UNION {{[patch |-> p, write |-> w] :
               w \in {x \in copy_patch_writes(h.patches[p], m.patches[p]) : x.n > x.size}}
           : p \in Idx(h.m_num_patches)}

\* one call of update_host().  A copy past the end of a host buffer is
\* undefined: the call either ends the run or returns with the table's
\* entries behind the host pointer.
UpdateHost ==
    /\ pc = "idle"
    /\ trap = "none"
    /\ \E r \in {update_host(host, mesh, d_num_patches)} :
       \E crash \in IF overflows(host, mesh) = {} THEN {FALSE} ELSE BOOLEAN :
           IF crash
           THEN /\ trap' = "oob"
                /\ UNCHANGED <<host, dsum, errors, calls_since>>
           ELSE /\ host' = r.host
                /\ dsum' = r.dsum
                /\ errors' = r.errors
                /\ calls_since' = IF calls_since < 2 THEN calls_since + 1 ELSE 2
                /\ trap' = trap
    /\ UNCHANGED <<mesh, edits, restored, validatevars, d_num_patches>>
    /\ UNCHANGED <<ndebug, m_size, m_bitmask, phase, thr, outcomes, last, kernvars>>

\* the mesh object as constructed over the valid partition, with host
\* capacities at or above the counts
InitHost ==
    /\ mesh = ValidMesh
    /\ edits = 0
    /\ restored = FALSE
    /\ pc = "idle"
    /\ m_quite = FALSE
    /\ cached_quite = FALSE
    /\ d_check = None
    /\ success = TRUE
    /\ passed = NotRun(Checks)
    /\ count = NoCounts
    /\ flagged = {}
    /\ launched = {}
    /\ vf_global = None
    /\ attributes = {}
    /\ ret = None
    /\ d_num_patches = Cardinality(Patches(ValidMesh))
    /\ \E extra \in 0 .. 1 : host = InitialHost(ValidMesh, extra)
    /\ dsum = InitialSummary(host)
    /\ errors = {}
    /\ calls_since = 0
    /\ NoBitmask
    /\ NoKernel

NextHost ==
    \/ UpdateHost
    \/ DevAddElement
    \/ DevGrowLP
    \/ DevSetNumPatches
    \/ EditEV
    \/ EditFE
    \/ FlipActive
    \/ FlipOwned
    \/ EditLP
    \/ EditGlobalCount
    \/ Restore

SpecHost == InitHost /\ [][NextHost]_vars

-----------------------------------------------------------------------------
(* Bitmask operations.  The host calls are sequential, one step each.  A     *)
(* group call runs the loop of reset(g) / set(g) in every participant, and a *)
(* batch of tasks runs one single-bit device call per thread; their steps    *)
(* interleave freely.  A failed assertion and an access outside the words    *)
(* end the run.                                                              *)

MeshUntouched ==
    UNCHANGED <<mesh, edits, restored, validatevars, d_num_patches, hostvars,
                kernvars>>

BoolStr(b) == IF b THEN "true" ELSE "false"

\* the in-range bits of the first word that concurrent tasks address
TaskBits(size) == {b \in {0, 1} : b < size}

HostFill(value) ==
    /\ phase.name = "host"
    /\ trap = "none"
    /\ m_bitmask' = fill_words(m_bitmask, mask_num_elements(m_size), value)
    /\ last' = NoCall
    /\ UNCHANGED <<ndebug, m_size, phase, thr, trap, outcomes>>
    /\ MeshUntouched

\* Bitmask::reset() of the host
BitmaskReset == HostFill({})

\* Bitmask::set() of the host
BitmaskSet == HostFill(INVALID32)

\* set(bit), reset(bit), flip(bit) and operator()(bit) on the host, where
\* is_atomic is ignored
SingleBit(kind, bit, is_atomic) ==
    /\ phase.name = "host"
    /\ trap = "none"
    /\ LET a == bit_access(bit, m_size, ndebug)
       IN  /\ trap' = IF a = "ok" THEN "none" ELSE a
           /\ m_bitmask' = IF a = "ok" THEN bitmask_apply(kind, m_bitmask, bit)
                           ELSE m_bitmask
           /\ \E r \in IF kind # "test" \/ a = "assert" THEN {"none"}
                       ELSE IF a = "ok" THEN {BoolStr(test_bit(bit, m_bitmask))}
                       ELSE {"true", "false"} :
                 last' = [kind |-> kind, bit |-> bit, result |-> r]
    /\ UNCHANGED <<ndebug, m_size, phase, thr, outcomes>>
    /\ MeshUntouched

SetBit ==
    \E bit \in BitInputs(m_size), is_atomic \in BOOLEAN :
        SingleBit("set", bit, is_atomic)

ResetBit ==
    \E bit \in BitInputs(m_size), is_atomic \in BOOLEAN :
        SingleBit("reset", bit, is_atomic)

FlipBit ==
    \E bit \in BitInputs(m_size), is_atomic \in BOOLEAN :
        SingleBit("flip", bit, is_atomic)

TestBit == \E bit \in BitInputs(m_size) : SingleBit("test", bit, FALSE)

\* g threads of a cooperative group enter reset(g) or set(g)
GroupLaunch ==
    /\ phase.name = "host"
    /\ trap = "none"
    /\ \E kind \in {"set", "reset"}, g \in 1 .. MaxThreads :
          /\ phase' = [name |-> "group", kind |-> kind, g |-> g,
                       start |-> m_bitmask]
          /\ thr' = [t \in Threads |->
                        IF t < g
                        THEN [IdleThread EXCEPT !.pc = "loop", !.kind = kind,
                                                !.i = t]
                        ELSE IdleThread]
    /\ last' = NoCall
    /\ UNCHANGED <<ndebug, m_size, m_bitmask, trap, outcomes>>
    /\ MeshUntouched

\* one iteration of the loop of reset(g) / set(g), or its exit: the call
\* returns as soon as the thread's own words are written
GroupLoop ==
    /\ phase.name = "group"
    /\ \E t \in Threads :
          /\ thr[t].pc = "loop"
          /\ IF thr[t].i < mask_num_elements(m_size)
             THEN /\ m_bitmask' =
                        [m_bitmask EXCEPT ![thr[t].i] =
                            IF phase.kind = "set" THEN INVALID32 ELSE {}]
                  /\ thr' = [thr EXCEPT ![t].i = @ + phase.g]
             ELSE /\ m_bitmask' = m_bitmask
                  /\ thr' = [thr EXCEPT ![t].pc = "returned"]
    /\ UNCHANGED <<ndebug, m_size, phase, trap, outcomes, last>>
    /\ MeshUntouched

\* a participant whose call returned tests a bit of the mask
GroupRead ==
    /\ phase.name = "group"
    /\ \E t \in Threads, bit \in BitInputs(m_size) :
          /\ thr[t].pc = "returned"
          /\ bit < m_size
          /\ thr' = [thr EXCEPT ![t].bit = bit,
                                ![t].result = BoolStr(test_bit(bit, m_bitmask))]
    /\ UNCHANGED <<ndebug, m_size, m_bitmask, phase, trap, outcomes, last>>
    /\ MeshUntouched

\* every participant returned
GroupEnd ==
    /\ phase.name = "group"
    /\ \A t \in Threads : t < phase.g => thr[t].pc = "returned"
    /\ phase' = HostPhase
    /\ thr' = [t \in Threads |-> IdleThread]
    /\ UNCHANGED <<ndebug, m_size, m_bitmask, trap, outcomes, last>>
    /\ MeshUntouched

\* k device threads each start one set / reset / flip on a bit of the first
\* word, all with the same is_atomic
TasksLaunch ==
    /\ phase.name = "host"
    /\ trap = "none"
    /\ \E k \in 1 .. MaxThreads, is_atomic \in BOOLEAN :
          \E kinds \in [Idx(k) -> {"set", "reset", "flip"}],
             bits \in [Idx(k) -> TaskBits(m_size)] :
             /\ phase' = [name |-> "tasks", kind |-> "none", g |-> k,
                          start |-> m_bitmask]
             /\ thr' = [t \in Threads |->
                           IF t < k
                           THEN [IdleThread EXCEPT !.pc = "call",
                                                   !.kind = kinds[t],
                                                   !.bit = bits[t],
                                                   !.atomic = is_atomic]
                           ELSE IdleThread]
    /\ last' = NoCall
    /\ UNCHANGED <<ndebug, m_size, m_bitmask, trap, outcomes>>
    /\ MeshUntouched

\* the device call: the assertion, then the atomic operation on the word or
\* the load of the word
TaskCall ==
    /\ phase.name = "tasks"
    /\ trap = "none"
    /\ \E t \in Threads :
          /\ thr[t].pc = "call"
          /\ LET a == bit_access(thr[t].bit, m_size, ndebug)
                 w == bitmask_int_index(thr[t].bit)
             IN  IF a # "ok"
                 THEN /\ trap' = a
                      /\ UNCHANGED <<m_bitmask, thr>>
                 ELSE /\ trap' = trap
                      /\ IF bitmask_op_is_atomic(thr[t].atomic)
                         THEN /\ m_bitmask' = bitmask_apply(thr[t].kind, m_bitmask,
                                                            thr[t].bit)
                              /\ thr' = [thr EXCEPT ![t].pc = "done"]
                         ELSE /\ m_bitmask' = m_bitmask
                              /\ thr' = [thr EXCEPT ![t].pc = "loaded",
                                                    ![t].reg = m_bitmask[w]]
    /\ UNCHANGED <<ndebug, m_size, phase, outcomes, last>>
    /\ MeshUntouched

\* the store of the changed word by a call that is not atomic
TaskStore ==
    /\ phase.name = "tasks"
    /\ \E t \in Threads :
          /\ thr[t].pc = "loaded"
          /\ m_bitmask' =
                [m_bitmask EXCEPT ![bitmask_int_index(thr[t].bit)] =
                    bitmask_word(thr[t].kind, thr[t].reg, thr[t].bit)]
          /\ thr' = [thr EXCEPT ![t].pc = "done"]
    /\ UNCHANGED <<ndebug, m_size, phase, trap, outcomes, last>>
    /\ MeshUntouched

\* every task finished; the batch is recorded with whether an update was lost
TasksEnd ==
    /\ phase.name = "tasks"
    /\ \A t \in Threads : t < phase.g => thr[t].pc = "done"
    /\ outcomes' = outcomes \cup
          {[atomic |-> thr[0].atomic,
            lost |-> m_bitmask \notin
                        SequentialResults(phase.start, thr, Idx(phase.g))]}
    /\ phase' = HostPhase
    /\ thr' = [t \in Threads |-> IdleThread]
    /\ UNCHANGED <<ndebug, m_size, m_bitmask, trap, last>>
    /\ MeshUntouched

\* a Bitmask over externally allocated words, which hold what the caller left
\* there; the mesh object is constructed and not used
InitBitmask ==
    /\ mesh = ValidMesh
    /\ edits = 0
    /\ restored = FALSE
    /\ pc = "idle"
    /\ m_quite = FALSE
    /\ cached_quite = FALSE
    /\ d_check = None
    /\ success = TRUE
    /\ passed = NotRun(Checks)
    /\ count = NoCounts
    /\ flagged = {}
    /\ launched = {}
    /\ vf_global = None
    /\ attributes = {}
    /\ ret = None
    /\ d_num_patches = Cardinality(Patches(ValidMesh))
    /\ host = InitialHost(ValidMesh, 0)
    /\ dsum = InitialSummary(host)
    /\ errors = {}
    /\ calls_since = 0
    /\ ndebug \in BOOLEAN
    /\ m_size \in Sizes
    /\ \E value \in {{}, INVALID32} :
          m_bitmask = [w \in Idx(mask_num_elements(m_size)) |-> value]
    /\ phase = HostPhase
    /\ thr = [t \in Threads |-> IdleThread]
    /\ trap = "none"
    /\ outcomes = {}
    /\ last = NoCall
    /\ NoKernel

NextBitmask ==
    \/ BitmaskReset
    \/ BitmaskSet
    \/ SetBit
    \/ ResetBit
    \/ FlipBit
    \/ TestBit
    \/ GroupLaunch
    \/ GroupLoop
    \/ GroupRead
    \/ GroupEnd
    \/ TasksLaunch
    \/ TaskCall
    \/ TaskStore
    \/ TasksEnd

SpecBitmask == InitBitmask /\ [][NextBitmask]_vars

-----------------------------------------------------------------------------
(* One block of a validator kernel, thread by thread *)

KernelFrame ==
    UNCHANGED <<mesh, edits, restored, validatevars, d_num_patches, hostvars,
                bitvars>>

ProgramOf(k) == Stages(k.name, mesh.patches[k.patch].num)

\* the block blockIdx.x = p of a kernel starts
KernelLaunch ==
    /\ kern.name = "none"
    /\ \E name \in SharedKernels, p \in Patches(mesh) :
          kern' = [name |-> name, patch |-> p]
    /\ k_pc' = [t \in Threads |-> 1]
    /\ s_written' = {}
    /\ races' = {}
    /\ KernelFrame

\* a thread runs its part of an access stage; a read of a cell that another
\* thread wrote since the last barrier is recorded
KernelAccess ==
    /\ kern.name # "none"
    /\ \E t \in Threads :
          /\ k_pc[t] <= Len(ProgramOf(kern))
          /\ LET st == ProgramOf(kern)[k_pc[t]]
             IN  /\ st.kind = "access"
                 /\ races' = races \cup
                       {[kernel |-> kern.name, arr |-> c.arr, line |-> st.line] :
                           c \in {c \in st.r[t] :
                                     \E x \in s_written :
                                        /\ x.arr = c.arr
                                        /\ x.cell = c.cell
                                        /\ x.thread # t}}
                 /\ s_written' = s_written \cup
                       {[arr |-> c.arr, cell |-> c.cell, thread |-> t] :
                           c \in st.w[t] \cup st.a[t]}
          /\ k_pc' = [k_pc EXCEPT ![t] = @ + 1]
    /\ UNCHANGED kern
    /\ KernelFrame

\* block.sync(): every thread of the block has arrived
KernelSync ==
    /\ kern.name # "none"
    /\ \A t \in Threads :
          /\ k_pc[t] <= Len(ProgramOf(kern))
          /\ k_pc[t] = k_pc[0]
          /\ ProgramOf(kern)[k_pc[t]].kind = "sync"
    /\ k_pc' = [t \in Threads |-> k_pc[t] + 1]
    /\ s_written' = {}
    /\ UNCHANGED <<kern, races>>
    /\ KernelFrame

\* every thread has left the kernel
KernelEnd ==
    /\ kern.name # "none"
    /\ \A t \in Threads : k_pc[t] > Len(ProgramOf(kern))
    /\ kern' = NoKernelRunning
    /\ k_pc' = [t \in Threads |-> 0]
    /\ s_written' = {}
    /\ UNCHANGED races
    /\ KernelFrame

InitKernel == InitHost /\ host = InitialHost(ValidMesh, 0)

NextKernel ==
    \/ KernelLaunch
    \/ KernelAccess
    \/ KernelSync
    \/ KernelEnd

SpecKernel == InitKernel /\ [][NextKernel]_vars

-----------------------------------------------------------------------------
(* validate() over patches with deleted elements *)

\* patch p of m after the faces and edges D were deleted (active bit cleared)
\* and the ownership of the edges O was given up (owned bit cleared)
WithDeleted(m, p, D, O) ==
    LET pi == m.patches[p]
        am == [t \in Types |->
                 [i \in DOMAIN pi.active_mask[t] |->
                     pi.active_mask[t][i] /\ [type |-> t, lid |-> i] \notin D]]
        om == [pi.owned_mask EXCEPT
                 !.e = [i \in DOMAIN pi.owned_mask.e |->
                           pi.owned_mask.e[i] /\ i \notin O]]
    IN  [m EXCEPT !.patches[p] = [pi EXCEPT !.active_mask = am, !.owned_mask = om]]

UpTo(S, n) == {X \in SUBSET S : Cardinality(X) <= n}

DeletedInputs ==
    UNION {{WithDeleted(ValidMesh, p, D, O) :
               D \in UpTo(UNION {{[type |-> t, lid |-> i] :
                                     i \in Idx(ValidMesh.patches[p].num[t])} :
                                 t \in {"e", "f"}},
                          MaxChanged),
               O \in UpTo({i \in Idx(ValidMesh.patches[p].num.e) :
                              ValidMesh.patches[p].owned_mask.e[i]}, MaxChanged)} :
           p \in Patches(ValidMesh)}

InitDeleted ==
    /\ mesh \in DeletedInputs
    /\ edits = 0
    /\ restored = FALSE
    /\ pc = "idle"
    /\ m_quite = FALSE
    /\ cached_quite = FALSE
    /\ d_check = None
    /\ success = TRUE
    /\ passed = NotRun(Checks)
    /\ count = NoCounts
    /\ flagged = {}
    /\ launched = {}
    /\ vf_global = None
    /\ attributes = {}
    /\ ret = None
    /\ d_num_patches = Cardinality(Patches(ValidMesh))
    /\ host = InitialHost(ValidMesh, 0)
    /\ dsum = InitialSummary(host)
    /\ errors = {}
    /\ calls_since = 0
    /\ NoBitmask
    /\ NoKernel

NextDeleted ==
    \/ ValidateBegin
    \/ CheckNumMeshElements
    \/ CheckUniqueness
    \/ CheckNotOwned
    \/ CheckRibbonEdges
    \/ ComputeVF
    \/ CheckRibbonFaces
    \/ ValidateEnd

SpecDeleted == InitDeleted /\ [][NextDeleted]_vars

Next ==
    \/ ValidateBegin
    \/ CheckNumMeshElements
    \/ CheckUniqueness
    \/ CheckNotOwned
    \/ CheckRibbonEdges
    \/ ComputeVF
    \/ CheckRibbonFaces
    \/ ValidateEnd
    \/ EditEV
    \/ EditFE
    \/ FlipActive
    \/ FlipOwned
    \/ EditLP
    \/ EditGlobalCount
    \/ Restore

Spec == Init /\ [][Next]_vars

-----------------------------------------------------------------------------
(* Properties *)

Returned == pc = "idle" /\ ret # None

Ran(c) == count[c] >= 0

InRange(i, n) == i >= 0 /\ i < n

\* C1: validate() returns true if and only if the element-count check passed
\* and the uniqueness, not-owned and ribbon checks each left the error counter
\* at zero; any one failing check makes the result false, whatever the others
\* found.
C1_ResultIsConjunction ==
    Returned =>
        (ret = "true" <=>
            /\ check_num_mesh_elements(mesh)
            /\ count["uniqueness"] = 0
            /\ count["not_owned"] = 0
            /\ count["ribbon_edges"] = 0
            /\ count["ribbon_faces"] = 0)

\* a run in which only the not-owned check failed, and the result is false
C1_Witness ==
    /\ Returned
    /\ ret = "false"
    /\ passed = [c \in Checks |-> Bool(c # "not_owned")]

Kernels ==
    {"calc_num_elements", "check_uniqueness", "check_not_owned",
     "check_ribbon_edges", "check_ribbon_faces"}

OwnedTotal(m, t) ==
    Cardinality({h \in Elements(m, t) : m.patches[h.patch].owned_mask[t][h.lid]})

\* a ribbon copy has the owned bit set although its owner has it set too
OwnedTwice(m) ==
    \E t \in Types : \E h \in Elements(m, t) :
        LET pi == m.patches[h.patch]
            pr == pi.lp[t][h.lid]
        IN  /\ pi.owned_mask[t][h.lid]
            /\ pr # NoPair
            /\ m.patches[pi.patch_stash[pr.stash]].owned_mask[t][pr.lid]

\* C3: the element-count check passes if and only if, for vertices, edges and
\* faces, the number of elements with the owned bit set over all patches equals
\* the global count of the Context.
C3_CountCheckIffOwnedSumsMatch ==
    passed["num_mesh_elements"] # None =>
        (passed["num_mesh_elements"] = "true" <=>
            \A t \in Types : OwnedTotal(mesh, t) = mesh.num[t])

\* two patches own the same element and the element-count check failed
C3_Witness ==
    /\ OwnedTwice(mesh)
    /\ passed["num_mesh_elements"] = "false"

\* edge e of the patch has two distinct, in-range, active vertices
EdgeWellFormed(pi, e) ==
    LET v0 == pi.ev[2 * e]
        v1 == pi.ev[2 * e + 1]
    IN  /\ InRange(v0, pi.num.v) /\ InRange(v1, pi.num.v)
        /\ v0 # v1
        /\ pi.active_mask.v[v0] /\ pi.active_mask.v[v1]

\* the edge in slot k of face f, and the endpoint its direction selects
SlotEdge(pi, f, k) == pi.fe[3 * f + k] \div 2

SlotVertex(pi, f, k) == pi.ev[2 * SlotEdge(pi, f, k) + (pi.fe[3 * f + k] % 2)]

\* face f has three distinct, in-range, active edges whose selected endpoints
\* are three distinct, in-range, active vertices
FaceWellFormed(pi, f) ==
    /\ \A k \in 0 .. 2 : /\ InRange(SlotEdge(pi, f, k), pi.num.e)
                         /\ pi.active_mask.e[SlotEdge(pi, f, k)]
                         /\ InRange(SlotVertex(pi, f, k), pi.num.v)
                         /\ pi.active_mask.v[SlotVertex(pi, f, k)]
    /\ \A k, l \in 0 .. 2 :
          k # l => /\ SlotEdge(pi, f, k) # SlotEdge(pi, f, l)
                   /\ SlotVertex(pi, f, k) # SlotVertex(pi, f, l)

UniqueIncidence(m) ==
    \A p \in Patches(m) :
        LET pi == m.patches[p]
        IN  /\ \A e \in Idx(pi.num.e) : pi.active_mask.e[e] => EdgeWellFormed(pi, e)
            /\ \A f \in Idx(pi.num.f) : pi.active_mask.f[f] => FaceWellFormed(pi, f)

TwoEdgesSameVertexPair(pi, f) ==
    /\ pi.active_mask.f[f]
    /\ \E k, l \in 0 .. 2 :
          /\ k # l
          /\ InRange(SlotEdge(pi, f, k), pi.num.e)
          /\ InRange(SlotEdge(pi, f, l), pi.num.e)
          /\ {pi.ev[2 * SlotEdge(pi, f, k)], pi.ev[2 * SlotEdge(pi, f, k) + 1]}
             = {pi.ev[2 * SlotEdge(pi, f, l)], pi.ev[2 * SlotEdge(pi, f, l) + 1]}

\* C5: check_uniqueness reports at least one violation whenever some patch has
\* a non-deleted face two of whose edges resolve to the same pair of vertices,
\* and reports none on the valid partition.
C5_SameVertexPairReported ==
    Ran("uniqueness") =>
        /\ (\E p \in Patches(mesh) : \E f \in Idx(mesh.patches[p].num.f) :
                TwoEdgesSameVertexPair(mesh.patches[p], f))
            => count["uniqueness"] >= 1
        /\ mesh = ValidMesh => count["uniqueness"] = 0

\* the (patch, index) that element x of patch p stands for: itself when the
\* patch owns it, else the owner's element named by its LP entry
Resolved(m, t, p, x) ==
    LET pi == m.patches[p]
    IN  IF pi.owned_mask[t][x]
        THEN Handle(p, x)
        ELSE Handle(pi.patch_stash[pi.lp[t][x].stash], pi.lp[t][x].lid)

\* x is an element of patch p that is owned or has an LP entry
Resolvable(m, t, p, x) ==
    /\ InRange(x, m.patches[p].num[t])
    /\ m.patches[p].owned_mask[t][x] \/ m.patches[p].lp[t][x] # NoPair

\* the non-deleted, not-owned elements of type t that have an LP entry
RibbonCopies(m, t) ==
    {h \in Elements(m, t) :
        /\ m.patches[h.patch].active_mask[t][h.lid]
        /\ ~m.patches[h.patch].owned_mask[t][h.lid]
        /\ m.patches[h.patch].lp[t][h.lid] # NoPair}

\* the element of the owner patch that the ribbon copy h points at
OwnerCopy(m, t, h) == Resolved(m, t, h.patch, h.lid)

OwnerActive(m, t, h) ==
    m.patches[OwnerCopy(m, t, h).patch].active_mask[t][OwnerCopy(m, t, h).lid]

\* every edge slot of the face copy h and of its owner copy can be resolved
FaceComparable(m, h) ==
    LET o == OwnerCopy(m, "f", h)
    IN  \A k \in 0 .. 2 :
            /\ Resolvable(m, "e", h.patch, SlotEdge(m.patches[h.patch], h.lid, k))
            /\ Resolvable(m, "e", o.patch, SlotEdge(m.patches[o.patch], o.lid, k))

\* slot by slot, the two copies name the same owner edge with the same direction
FaceCopiesAgree(m, h) ==
    LET o  == OwnerCopy(m, "f", h)
        pi == m.patches[h.patch]
        po == m.patches[o.patch]
    IN  \A k \in 0 .. 2 :
            /\ Resolved(m, "e", h.patch, SlotEdge(pi, h.lid, k))
               = Resolved(m, "e", o.patch, SlotEdge(po, o.lid, k))
            /\ pi.fe[3 * h.lid + k] % 2 = po.fe[3 * o.lid + k] % 2

EdgeComparable(m, h) ==
    LET o == OwnerCopy(m, "e", h)
    IN  \A k \in 0 .. 1 :
            /\ Resolvable(m, "v", h.patch, m.patches[h.patch].ev[2 * h.lid + k])
            /\ Resolvable(m, "v", o.patch, m.patches[o.patch].ev[2 * o.lid + k])

\* end by end, the two copies name the same owner vertex
EdgeCopiesAgree(m, h) ==
    LET o == OwnerCopy(m, "e", h)
    IN  \A k \in 0 .. 1 :
            Resolved(m, "v", h.patch, m.patches[h.patch].ev[2 * h.lid + k])
            = Resolved(m, "v", o.patch, m.patches[o.patch].ev[2 * o.lid + k])

FlipDir(x) == IF x % 2 = 0 THEN x + 1 ELSE x - 1

\* the mesh is the valid partition with one direction tag of one ribbon face
\* copy changed, the owner untouched
DirTagFlipped(m) ==
    \E h \in RibbonCopies(ValidMesh, "f") : \E k \in 0 .. 2 :
        m = [ValidMesh EXCEPT !.patches[h.patch].fe[3 * h.lid + k] = FlipDir(@)]

\* C6: for every non-deleted, not-owned face whose owner copy is not deleted,
\* check_not_owned counts a violation exactly when the three edges of the two
\* copies do not agree slot by slot in resolved edge index, owning patch and
\* direction tag; likewise for every non-deleted, not-owned edge and its two
\* vertices.  One changed direction tag of a ribbon face copy is detected, and
\* on the valid partition (also after the change is undone) the counter is zero.
C6_MirroringMismatchCounted ==
    Ran("not_owned") =>
        /\ \A h \in RibbonCopies(mesh, "f") :
              OwnerActive(mesh, "f", h) /\ FaceComparable(mesh, h) =>
                  (Site("check_not_owned", "f", h, "differs") \in flagged
                   <=> ~FaceCopiesAgree(mesh, h))
        /\ \A h \in RibbonCopies(mesh, "e") :
              OwnerActive(mesh, "e", h) /\ EdgeComparable(mesh, h) =>
                  (Site("check_not_owned", "e", h, "differs") \in flagged
                   <=> ~EdgeCopiesAgree(mesh, h))
        /\ DirTagFlipped(mesh) => count["not_owned"] >= 1
        /\ mesh = ValidMesh => count["not_owned"] = 0

\* a run on a mesh with one direction tag of a ribbon face copy changed, in
\* which check_not_owned counted the face
C6_Witness ==
    /\ Ran("not_owned")
    /\ DirTagFlipped(mesh)
    /\ count["not_owned"] >= 1
    /\ \E h \in RibbonCopies(mesh, "f") :
          Site("check_not_owned", "f", h, "differs") \in flagged

\* the owner copy of the ribbon copy h does not have its owned bit set
OwnerLacksOwnedBit(m, t, h) ==
    ~m.patches[OwnerCopy(m, t, h).patch].owned_mask[t][OwnerCopy(m, t, h).lid]

\* C7: for every non-deleted, not-owned face or edge, if the patch and local
\* index its LP entry resolves to does not have the owned bit set, then
\* check_not_owned counts a violation for it.
C7_OwnerWithoutOwnedBitCounted ==
    Ran("not_owned") =>
        \A t \in {"f", "e"} : \A h \in RibbonCopies(mesh, t) :
            OwnerLacksOwnedBit(mesh, t, h) =>
                /\ Site("check_not_owned", t, h, "owner_not_owned") \in flagged
                /\ count["not_owned"] >= 1

\* a run in which a ribbon copy pointed at an element its owner patch does not
\* own, and nothing else about that copy was counted
C7_Witness ==
    /\ Ran("not_owned")
    /\ \E t \in {"f", "e"} : \E h \in RibbonCopies(mesh, t) :
          /\ OwnerLacksOwnedBit(mesh, t, h)
          /\ OwnerActive(mesh, t, h)
          /\ Site("check_not_owned", t, h, "owner_not_owned") \in flagged
          /\ Site("check_not_owned", t, h, "differs") \notin flagged

IncidentOwnedFace(pi, e) ==
    \E f \in Idx(pi.num.f) :
        /\ pi.active_mask.f[f]
        /\ pi.owned_mask.f[f]
        /\ \E k \in 0 .. 2 : SlotEdge(pi, f, k) = e

\* the owned, non-deleted edges that no owned, non-deleted face of their patch holds
BareOwnedEdges(m) ==
    {h \in Elements(m, "e") :
        /\ m.patches[h.patch].owned_mask.e[h.lid]
        /\ m.patches[h.patch].active_mask.e[h.lid]
        /\ ~IncidentOwnedFace(m.patches[h.patch], h.lid)}

\* C9: check_ribbon_edges counts an owned, non-deleted edge exactly when no
\* owned, non-deleted face of the same patch is incident to it: with such an
\* edge the ribbon check fails, and an edge that has an incident owned,
\* non-deleted face (again) is not counted; the valid partition counts none.
C9_BareOwnedEdgeFlagged ==
    Ran("ribbon_edges") =>
        /\ \A h \in Elements(mesh, "e") :
              /\ mesh.patches[h.patch].owned_mask.e[h.lid]
              /\ mesh.patches[h.patch].active_mask.e[h.lid]
              => (Site("check_ribbon_edges", "e", h, "unmarked") \in flagged
                  <=> h \in BareOwnedEdges(mesh))
        /\ BareOwnedEdges(mesh) # {} =>
              count["ribbon_edges"] >= 1 /\ passed["ribbon"] = "false"
        /\ mesh = ValidMesh => count["ribbon_edges"] = 0

\* a run on a mesh in which the only owned face of a patch is owned no more:
\* its owned edges were counted and the ribbon check failed
C9_Witness ==
    /\ Ran("ribbon_edges")
    /\ passed["ribbon"] = "false"
    /\ \E p \in Patches(mesh) :
          /\ \A f \in Idx(mesh.patches[p].num.f) : ~mesh.patches[p].owned_mask.f[f]
          /\ \E h \in BareOwnedEdges(mesh) :
                /\ h.patch = p
                /\ Site("check_ribbon_edges", "e", h, "unmarked") \in flagged

\* the patch-local vertex-to-face list of v: the non-deleted faces of the
\* patch that have v as a direction-selected vertex
LocalFaces(pi, v) ==
    {f \in Idx(pi.num.f) :
        pi.active_mask.f[f] /\ \E k \in 0 .. 2 : SlotVertex(pi, f, k) = v}

\* some valid handle of the global list of vertex k of face f of patch p is
\* the resolved handle of no face of the patch-local list of that vertex
GlobalNeighbourMissing(m, vf, p, f, k) ==
    LET pi == m.patches[p]
        v  == SlotVertex(pi, f, k)
    IN  \E g \in vf[Resolved(m, "v", p, v)] :
            \A fl \in LocalFaces(pi, v) : Resolved(m, "f", p, fl) # g

ValidateStep == pc # "idle" \/ pc' # "idle"

\* C11: validate() is read-only: no step of it changes the device mesh
\* (global counts, and every patch's counts, ev, fe, masks, LP tables and
\* patch stash) or any state of the mesh object other than the verbosity flag;
\* the attributes registered with the mesh object are the same after the call.
C11_ValidateChangesNothing ==
    [][ValidateStep => mesh' = mesh /\ attributes' = attributes]_vars

\* the device mesh itself is left alone by every step of validate()
DeviceMeshUnchangedByValidate == [][ValidateStep => mesh' = mesh]_vars

\* C12: on every return path of validate() the verbosity flag holds the value
\* it had before the call: the value is saved at entry, the saved value is not
\* touched during the call, and every return writes it back.
C12_QuiteRestored ==
    [][/\ (pc = "idle" /\ pc' # "idle") => cached_quite' = m_quite
       /\ (pc # "idle" /\ pc' # "idle") => cached_quite' = cached_quite
       /\ (pc # "idle" /\ pc' = "idle") => m_quite' = cached_quite]_vars

\* a call that returned false after check_ribbon returned early, with the flag
\* back at FALSE although validate() had set it
C12_Witness ==
    /\ Returned
    /\ ret = "false"
    /\ "check_ribbon_faces" \notin launched
    /\ m_quite = FALSE
    /\ cached_quite = FALSE


\* a step that is a call of update_host() (calls_since saturates at 2)
IsCall == calls_since' = calls_since + 1

\* C13: when the device's patch count differs from the host's, update_host()
\* reports an error and does nothing else: the host mirrors, capacities,
\* prefix sums and global counts and the device summary arrays are unchanged.
C13_AbortsOnPatchCountMismatch ==
    [][IsCall /\ d_num_patches # host.m_num_patches =>
          /\ \E e \in errors' : e.what = "num_patches"
          /\ host' = host
          /\ dsum' = dsum]_vars


\* update_host() has returned and the device has not been changed since
Reconciled == calls_since >= 1

\* the first n entries of the host buffer are the device array's
SamePrefix(buf, arr, n) == \A i \in Idx(n) : buf[i] = arr[i]

\* the host mirror of patch p holds what the device patch holds
MirrorEqualsDevice(hp, dp) ==
    /\ hp.num = dp.num
    /\ SamePrefix(hp.ev, dp.ev, 2 * dp.num.e)
    /\ SamePrefix(hp.fe, dp.fe, 3 * dp.num.f)
    /\ \A t \in Types :
          /\ SamePrefix(hp.active_mask[t], dp.active_mask[t], dp.num[t])
          /\ SamePrefix(hp.owned_mask[t], dp.owned_mask[t], dp.num[t])
          /\ hp.lp[t] = dp.lp[t]
          /\ hp.lp_capacity[t] = dp.lp_capacity[t]
    /\ hp.patch_stash = dp.patch_stash

\* the number of elements of type t the device patch owns
DeviceOwned(dp, t) == Cardinality({i \in Idx(dp.num[t]) : dp.owned_mask[t][i]})

\* C14: after update_host() returns, the patch count being unchanged, every
\* patch's host mirror has the device's counts, its first 2*num_edges ev and
\* 3*num_faces fe entries, its active and owned mask bits up to the counts,
\* its patch stash and its three LP tables, and the device summary arrays
\* hold each patch's count and owned count.
C14_MirrorsEqualDevice ==
    Reconciled /\ d_num_patches = host.m_num_patches =>
        \A p \in Patches(mesh) :
            /\ MirrorEqualsDevice(host.patches[p], mesh.patches[p])
            /\ \A t \in Types :
                  /\ dsum.num[t][p] = mesh.patches[p].num[t]
                  /\ dsum.owned[t][p] = DeviceOwned(mesh.patches[p], t)
                  /\ dsum.num[t][p] = host.h_num[t][p]
                  /\ dsum.owned[t][p] = host.h_num_owned[t][p]

\* with the device's LP tables of the size the host's were built with, the
\* mirrors equal the device after every call
MirrorsEqualUnlessTableGrew ==
    (\A p \in Patches(mesh) :
        mesh.patches[p].lp_capacity = ValidMesh.patches[p].lp_capacity)
    => C14_MirrorsEqualDevice

\* C15: no step lowers a host-side vertex, edge or face capacity of a patch,
\* and after each update_host() every capacity is at least the patch's
\* current count of that type.
C15_CapacityOnlyGrows ==
    /\ [](Reconciled =>
            \A p \in Patches(mesh) : \A t \in Types :
                host.patches[p].capacity[t] >= mesh.patches[p].num[t])
    /\ [][\A p \in Patches(mesh) : \A t \in Types :
              host.patches[p].capacity[t]' >= host.patches[p].capacity[t]]_vars

\* after a call one capacity has grown to a count above the initial capacity
\* while another capacity is still the initial one
C15_Witness ==
    /\ Reconciled
    /\ \E p \in Patches(mesh) : \E t \in Types :
          /\ host.patches[p].capacity[t] = mesh.patches[p].num[t]
          /\ mesh.patches[p].num[t] > ValidMesh.patches[p].num[t]
    /\ \E p \in Patches(mesh) : \E t \in Types :
          host.patches[p].capacity[t] = ValidMesh.patches[p].num[t]

\* the report update_host() makes for a prefix-sum mismatch of type t
PrefixReport(t) ==
    IF t = "v" THEN "m_num_vertices" ELSE IF t = "e" THEN "m_num_edges" ELSE "m_num_faces"

\* the summary arrays on the device hold the counts of the device patches
SummaryPushed ==
    \A p \in Patches(mesh) : \A t \in Types :
        /\ dsum.num[t][p] = mesh.patches[p].num[t]
        /\ dsum.owned[t][p] = DeviceOwned(mesh.patches[p], t)

\* some type's final prefix total is not the global count
PrefixMismatch ==
    \E t \in Types : host.prefix[t][host.m_num_patches] # mesh.num[t]

\* C16: after update_host(), for every type and patch, prefix[p+1] is
\* prefix[p] plus the number of elements the patch owns; when the final total
\* differs from the global count this is reported, and the call still
\* completes: the refreshed summaries are on the device.
C16_PrefixSumsAndNonFatalReport ==
    Reconciled =>
        /\ \A t \in Types : \A p \in Patches(mesh) :
              host.prefix[t][p + 1]
              = host.prefix[t][p] + DeviceOwned(mesh.patches[p], t)
        /\ \A t \in Types :
              host.prefix[t][host.m_num_patches] # mesh.num[t] =>
                  \E e \in errors : e.what = PrefixReport(t)
        /\ PrefixMismatch =>
              /\ SummaryPushed
              /\ host.m_num = mesh.num
              /\ \A p \in Patches(mesh) : host.patches[p].num = mesh.patches[p].num

\* a call that reported a mismatch after an owned bit changed, and pushed the
\* new owned counts
C16_Witness ==
    /\ Reconciled
    /\ PrefixMismatch
    /\ errors # {}
    /\ SummaryPushed
    /\ dsum # InitialSummary(InitialHost(ValidMesh, 0))

\* C17: a call of update_host() made after an earlier call, with no device
\* mutation in between, leaves the host mirrors, capacities, owned counts and
\* prefix sums (and the device summaries) as the earlier call left them.
C17_UpdateHostIdempotent ==
    [][IsCall /\ Reconciled => host' = host /\ dsum' = dsum /\ errors' = errors]_vars

\* two calls in a row after a device mutation
C17_Witness ==
    /\ calls_since = 2
    /\ mesh # ValidMesh
    /\ \E p \in Patches(mesh) : host.patches[p] # HostPatchInfo(ValidMesh.patches[p], 0)
    /\ \E p \in Patches(mesh) : host.patches[p] # HostPatchInfo(ValidMesh.patches[p], 1)

\* C26: no call of update_host() copies more into a per-patch host buffer
\* than the buffer holds when it is written, whatever the device's counts and
\* LP-table sizes have grown to since the previous call.  (A step that leaves
\* the device as it is is a call of update_host().)
C26_NoCopyPastHostBuffer ==
    [][mesh' = mesh /\ d_num_patches' = d_num_patches
          => overflows(host, mesh) = {}]_vars

\* the copies into ev, fe and the masks fit their buffers in every call
C26_CountBuffersFit ==
    [][\A o \in overflows(host, mesh) : o.write.what = "lp"]_vars

-----------------------------------------------------------------------------
(* Bitmask *)

\* the last host call was a single-bit call on an in-range bit
LastInRange(kind) ==
    /\ phase.name = "host"
    /\ last.kind = kind
    /\ last.bit < m_size

LastPastSize ==
    /\ phase.name = "host"
    /\ last.kind # "none"
    /\ last.bit >= m_size

SetThenTest ==
    /\ LastInRange("set") => test_bit(last.bit, m_bitmask)
    /\ LastInRange("reset") => ~test_bit(last.bit, m_bitmask)

\* C18 as stated: for every bit i < N the test of bit i is true right after
\* set(i) and false right after reset(i), and every single-bit call with
\* i >= N takes the assertion path and neither reads nor writes a bit.
C18_SetResetTestAndAssertion ==
    /\ [](SetThenTest /\ (LastPastSize => trap = "assert"))
    /\ [][trap' = "assert" => m_bitmask' = m_bitmask]_vars

\* C18 amended: the same for i < N; a call with i >= N takes the assertion
\* path, without reading or writing a bit, in a build that keeps assertions,
\* and in a build with NDEBUG it accesses the bit (in the padding of the last
\* word, or outside the words).
C18_AssertionOnlyWithoutNDEBUG ==
    /\ [](/\ SetThenTest
          /\ LastPastSize /\ ~ndebug => trap = "assert" /\ last.result = "none"
          /\ LastPastSize /\ ndebug => trap \in {"none", "oob"})
    /\ [][trap' = "assert" => m_bitmask' = m_bitmask]_vars

C18_Witness ==
    /\ ~ndebug
    /\ trap = "assert"
    /\ last.kind = "set"
    /\ last.bit = m_size
    /\ m_size = WordBits + 1
    /\ test_bit(0, m_bitmask)
    /\ ~test_bit(WordBits, m_bitmask)
    /\ test_bit(1, m_bitmask)

\* C19: after its own reset(g) (set(g)) returned, a participant of the group
\* call reads every bit of the mask as reset (set): no word is left unwritten
\* for it to observe.
C19_GroupCallCompleteOnReturn ==
    \A t \in Threads :
        /\ phase.name = "group"
        /\ thr[t].pc = "returned"
        /\ thr[t].result # "none"
        => thr[t].result = BoolStr(phase.kind = "set")

BatchDone ==
    /\ phase.name = "tasks"
    /\ \A t \in Threads : t < phase.g => thr[t].pc = "done"

BatchAtomic == \A t \in Threads : t < phase.g => thr[t].atomic

\* C20: when every task of a batch of concurrent set / reset / flip calls on
\* bits of one word passes is_atomic = true, the final mask is the result of
\* the calls in some sequential order, under every interleaving (no update is
\* lost); batches without is_atomic are the only ones that lose an update.
C20_AtomicLosesNoUpdate ==
    /\ BatchDone /\ BatchAtomic =>
          m_bitmask \in SequentialResults(phase.start, thr, Idx(phase.g))
    /\ \A o \in outcomes : o.lost => ~o.atomic

\* two atomic tasks have flipped and set the same bit, after an earlier
\* batch without is_atomic lost an update
C20_Witness ==
    /\ BatchDone
    /\ BatchAtomic
    /\ phase.g = 2
    /\ thr[0].bit = thr[1].bit
    /\ thr[0].kind = "flip"
    /\ thr[1].kind = "set"
    /\ m_bitmask # phase.start
    /\ [atomic |-> FALSE, lost |-> TRUE] \in outcomes
    /\ [atomic |-> TRUE, lost |-> FALSE] \in outcomes

-----------------------------------------------------------------------------
(* Validator: counter, barriers, deleted elements, reads in range *)

\* the atomicAdds of this run made by the kernels K
Own(K) == {s \in flagged : s.kernel \in K}

\* C21: the counter value each check reads is the number of violations its
\* own kernels counted, so a check fails only on violations of its own and a
\* violation counted by an earlier check never makes a later check fail.
C21_CounterZeroAtEachCheck ==
    /\ Ran("uniqueness") =>
          count["uniqueness"] = Cardinality(Own({"check_uniqueness"}))
    /\ Ran("not_owned") =>
          count["not_owned"] = Cardinality(Own({"check_not_owned"}))
    /\ Ran("ribbon_edges") =>
          count["ribbon_edges"] = Cardinality(Own({"check_ribbon_edges"}))
    /\ Ran("ribbon_faces") =>
          count["ribbon_faces"] =
              Cardinality(Own({"check_ribbon_edges", "check_ribbon_faces"}))
    /\ passed["uniqueness"] = "false" => Own({"check_uniqueness"}) # {}
    /\ passed["not_owned"] = "false" => Own({"check_not_owned"}) # {}
    /\ passed["ribbon"] = "false" =>
          Own({"check_ribbon_edges", "check_ribbon_faces"}) # {}

\* a run in which the uniqueness check counted violations and the not-owned
\* and ribbon checks, run after it, passed
C21_Witness ==
    /\ Returned
    /\ count["uniqueness"] > 0
    /\ passed["uniqueness"] = "false"
    /\ passed["not_owned"] = "true"
    /\ passed["ribbon"] = "true"

\* C22: in every validator kernel a thread reads a shared cell written by
\* another thread of the block only after a block-wide barrier that follows
\* the write.
C22_NoSharedReadWithoutBarrier == races = {}

\* the same for the kernels other than check_ribbon_faces
BarriersOutsideRibbonFaces ==
    \A x \in races : x.kernel = "check_ribbon_faces" /\ x.line = 535

\* the faces whose thread enters the vertex-to-face part of check_ribbon_faces
ExaminedFaces ==
    {h \in Elements(mesh, "f") :
        \E ub \in UB(mesh) : ribbon_face_examined(PatchOf(mesh, h), h.lid, ub)}

\* C23: the ribbon check skips deleted elements: no owned edge whose active
\* bit is 0 is flagged by check_ribbon_edges, and no owned face whose active
\* bit is 0 is examined by check_ribbon_faces.
C23_RibbonCheckSkipsDeleted ==
    /\ \A s \in Own({"check_ribbon_edges"}) :
          mesh.patches[s.patch].active_mask.e[s.lid]
    /\ "check_ribbon_faces" \in launched =>
          \A h \in ExaminedFaces : PatchOf(mesh, h).active_mask.f[h.lid]

\* the two halves of C23
C23_DeletedEdgeNotFlagged ==
    \A s \in Own({"check_ribbon_edges"}) :
        mesh.patches[s.patch].active_mask.e[s.lid]

C23_DeletedFaceNotExamined ==
    "check_ribbon_faces" \in launched =>
        \A h \in ExaminedFaces : PatchOf(mesh, h).active_mask.f[h.lid]

\* C25: check_uniqueness tests no active-mask bit at an index at or past the
\* count of its element type and reads the loaded edge-vertex array at no
\* index at or past its 2 * num_edges entries, whatever the patch holds.
C25_UniquenessReadsInRange ==
    pc # "idle" /\ "check_uniqueness" \in launched =>
        \A ub \in UB(mesh) : \A r \in check_uniqueness_reads(mesh, ub) :
            r.index < r.limit

-----------------------------------------------------------------------------
(* update_host(): reports and buffer sizes *)

\* C24: each prefix-sum report of update_host() carries the global count and
\* the prefix-sum total of the element type it names.
C24_ReportCarriesOwnType ==
    \A t \in Types : \A r \in errors :
        r.what = PrefixReport(t) =>
            /\ r.count = host.m_num[t]
            /\ r.total = host.prefix[t][host.m_num_patches]

\* a step that is a host call of the single-bit operation kind on a bit below
\* the size (every other step leaves last without a call or is not the host's)
SingleBitStep(kind) ==
    /\ phase.name = "host"
    /\ phase'.name = "host"
    /\ last'.kind = kind
    /\ last'.bit < m_size

\* C27: set(i), reset(i) and flip(i) with i < N leave the test of every other
\* bit j < N as it was; flip(i) inverts the test of bit i, and a second
\* flip(i) gives the mask back; the test operation changes no bit.
C27_SingleBitFrame ==
    [][/\ \A kind \in {"set", "reset", "flip"} :
             SingleBitStep(kind) =>
                 \A j \in Idx(m_size) \ {last'.bit} :
                     test_bit(j, m_bitmask') = test_bit(j, m_bitmask)
       /\ SingleBitStep("flip") =>
             /\ test_bit(last'.bit, m_bitmask') = ~test_bit(last'.bit, m_bitmask)
             /\ bitmask_apply("flip", m_bitmask', last'.bit) = m_bitmask
       /\ SingleBitStep("test") =>
             /\ m_bitmask' = m_bitmask
             /\ last'.result = BoolStr(test_bit(last'.bit, m_bitmask))]_vars

\* bit 32 of a mask of 33 bits was flipped to zero, with bit 0 set and bit 1
\* reset next to it
C27_Witness ==
    /\ phase.name = "host"
    /\ trap = "none"
    /\ m_size = WordBits + 1
    /\ last.kind = "flip"
    /\ last.bit = WordBits
    /\ ~test_bit(WordBits, m_bitmask)
    /\ test_bit(0, m_bitmask)
    /\ ~test_bit(1, m_bitmask)
====
